---- MODULE Spec2Model ----
(***************************************************************************)
(* Order lifecycle of the shopping system: OrderManager (order collection, *)
(* CSV persistence, background status scheduler), Order (construction from *)
(* a basket with stock check and decrement) and the promotion pricing      *)
(* preview shown before checkout.                                          *)
(*                                                                         *)
(* Two threads exist: the foreground console thread "fg" and the           *)
(* autoUpdateThread "sched".  Every statement that touches shared state    *)
(* outside ordersMutex is a step of its own; statements executed while the *)
(* mutex is held are split wherever the other thread can still observe or  *)
(* change what they touch without the mutex.                               *)
(*                                                                         *)
(* Amounts: prices are whole currency units; discount rates are percent    *)
(* (rate 0.8 is 80), so every amount of the pricing preview is kept in     *)
(* hundredths (Scale).                                                     *)
(***************************************************************************)
EXTENDS Integers, Sequences, FiniteSets, TLC

\* ---------------------------------------------------------------- bounds
MaxTime == 2
MaxOrders == 1
MaxLines == 2
MaxQty == 2
MaxPromotions == 2
MaxCounter == 6

Scale == 100
DefaultPendingToShipped == 10
DefaultShippedToDelivered == 20

\* ---------------------------------------------------------------- inputs
Threads == {"fg", "sched"}
ItemIds == {"A", "B"}
UserIds == {"u1"}
Addresses == {"addr"}
Statuses == {"PENDING", "SHIPPED", "DELIVERED"}
\* (pendingToShipped, shippedToDelivered) pairs passed to enableAutoUpdate
DurationChoices == {<<1, 1>>, <<2, 1>>}

\* a basket line is a (shared item, quantity) pair
CartLine == [item : ItemIds, quantity : 1..MaxQty]
Baskets == UNION {[1..n -> CartLine] : n \in 1..MaxLines}
\* the baskets offered while the scheduler runs
SmallBaskets == {<<[item |-> "A", quantity |-> 1]>>}

VARIABLES
    now,                        \* std::time(nullptr), in seconds
    items,                      \* ItemManager: itemId -> [price, stock]
    itemsFile,                  \* items CSV: itemId -> persisted stock
    promotions,                 \* PromotionManager::promotions
    promotionsFile,             \* promotions CSV, one entry per line
    orders,                     \* OrderManager::orders
    file,                       \* orders CSV, one entry per flushed line
    ordersMutex,                \* "free" or the thread holding it
    autoUpdateEnabled,
    pendingToShippedSeconds,
    shippedToDeliveredSeconds,
    pc,                         \* position of each thread
    call,                       \* the foreground call in progress
    off,                        \* write offset of each thread's ofstream
    iter,                       \* position of each thread's loop over orders
    sched,                      \* locals of autoUpdateOrderStatus
    result,                     \* value returned by the last foreground call
    overlapped,                 \* two ofstreams on the orders CSV were open at once
                                \* since the current foreground call began
    shippedSince,               \* history: per order, the time its status changed
                                \* to SHIPPED, or -1 while it is not SHIPPED
    scanLog,                    \* history: what the scan in progress has done
    promotionsWritable          \* the promotions CSV can be opened for writing

vars == <<now, items, itemsFile, promotions, promotionsFile, orders, file, ordersMutex,
          autoUpdateEnabled, pendingToShippedSeconds, shippedToDeliveredSeconds,
          pc, call, off, iter, sched, result, overlapped, shippedSince, scanLog, promotionsWritable>>

\* history of a scan: orders moved on, times the orders CSV was opened for writing
NoScan == [moved |-> 0, writes |-> 0]
NoCall == [op |-> "none"]
NoResult == [op |-> "none"]
SchedIdle == [currentTime |-> 0, needSave |-> FALSE, decision |-> "NONE"]

\* ---------------------------------------------------------------- Item
ItemName(itemId) == itemId

ItemPrice(itemId) == IF itemId = "A" THEN 3 ELSE 5

InitialItems == [i \in ItemIds |-> [price |-> ItemPrice(i), stock |-> 3]]

\* the stock levels the catalog is loaded with at checkout
InitialStocks == {1, 3}

\* ---------------------------------------------------------------- Promotion
DiscountPromo(id, target, rate, active) ==
    [promotionId |-> id, promotionName |-> "sale",
     promotionType |-> "DISCOUNT", isActive |-> active,
     startTime |-> 0, endTime |-> MaxTime + 1, targetItemId |-> target,
     discountRate |-> rate, thresholdAmount |-> 0, reductionAmount |-> 0]

FullReductionPromo(id, threshold, reduction, active) ==
    [promotionId |-> id, promotionName |-> "sale",
     promotionType |-> "FULL_REDUCTION", isActive |-> active,
     startTime |-> 0, endTime |-> MaxTime + 1, targetItemId |-> "",
     discountRate |-> 100, thresholdAmount |-> threshold, reductionAmount |-> reduction]

isValid(p, currentTime) ==
    IF ~p.isActive THEN FALSE
    ELSE currentTime >= p.startTime /\ currentTime <= p.endTime

isApplicableToItem(p, itemId) ==
    IF p.promotionType # "DISCOUNT" THEN FALSE
    ELSE IF p.targetItemId = "-1" THEN TRUE
    ELSE p.targetItemId = itemId

\* the rate taken as the fraction taken off the price
calculateDiscountForItem_PercentOff(p, originalPrice) ==
    IF p.promotionType # "DISCOUNT" THEN originalPrice * Scale
    ELSE originalPrice * (Scale - p.discountRate)

\* price * discountRate, in hundredths
calculateDiscountForItem(p, originalPrice) ==
    IF p.promotionType # "DISCOUNT" THEN originalPrice * Scale
    ELSE originalPrice * p.discountRate

\* in whole units
calculateReduction(p, totalAmount100) ==
    IF p.promotionType # "FULL_REDUCTION" THEN 0
    ELSE IF totalAmount100 >= p.thresholdAmount * Scale THEN p.reductionAmount
    ELSE 0

\* a rate that replaces the best one also when it only equals it
IsBetterRate_OrEqual(rate, bestRate) == rate <= bestRate

\* p->getDiscountRate() < bestRate
IsBetterRate(rate, bestRate) == rate < bestRate

RECURSIVE BestDiscountFrom(_, _, _, _, _)
\* the loop of getActiveDiscountForItem from index k on; best is an index or 0
BestDiscountFrom(k, itemId, currentTime, bestRate, best) ==
    IF k > Len(promotions) THEN best
    ELSE LET p == promotions[k]
         IN IF /\ p.promotionType = "DISCOUNT"
               /\ isValid(p, currentTime)
               /\ isApplicableToItem(p, itemId)
               /\ IsBetterRate(p.discountRate, bestRate)
            THEN BestDiscountFrom(k + 1, itemId, currentTime, p.discountRate, k)
            ELSE BestDiscountFrom(k + 1, itemId, currentTime, bestRate, best)

getActiveDiscountForItem(itemId, currentTime) ==
    BestDiscountFrom(1, itemId, currentTime, Scale, 0)

RECURSIVE InsertByThreshold(_, _)
InsertByThreshold(sorted, p) ==
    IF sorted = <<>> THEN <<p>>
    ELSE IF p.thresholdAmount < Head(sorted).thresholdAmount THEN <<p>> \o sorted
    ELSE <<Head(sorted)>> \o InsertByThreshold(Tail(sorted), p)

RECURSIVE SortByThreshold(_)
SortByThreshold(s) ==
    IF s = <<>> THEN <<>>
    ELSE InsertByThreshold(SortByThreshold(SubSeq(s, 1, Len(s) - 1)), s[Len(s)])

\* the reductions left in storage order
SortedReductions_Unsorted(reductions) == reductions

\* std::sort(reductions.begin(), reductions.end(), by thresholdAmount)
SortedReductions(reductions) == SortByThreshold(reductions)

getActiveFullReductions(currentTime) ==
    SortedReductions(SelectSeq(promotions,
        LAMBDA p : p.promotionType = "FULL_REDUCTION" /\ isValid(p, currentTime)))

RECURSIVE DiscountStage(_, _, _)
\* first loop of calculatePromotionResult over the basket lines from k on
DiscountStage(cartItems, currentTime, acc) ==
    IF cartItems = <<>> THEN acc
    ELSE LET line == Head(cartItems)
             unit == items[line.item].price
             itemOriginalPrice == unit * line.quantity * Scale
             d == getActiveDiscountForItem(line.item, currentTime)
             discountedPrice == calculateDiscountForItem(promotions[d], unit) * line.quantity
         IN IF d # 0
            THEN DiscountStage(Tail(cartItems), currentTime,
                    [acc EXCEPT !.originalTotal = @ + itemOriginalPrice,
                                !.afterDiscountTotal = @ + discountedPrice,
                                !.itemDiscounts = Append(@, <<ItemName(line.item),
                                                    itemOriginalPrice - discountedPrice>>),
                                !.appliedPromotions = Append(@, <<"discount", ItemName(line.item),
                                                    promotions[d].discountRate>>)])
            ELSE DiscountStage(Tail(cartItems), currentTime,
                    [acc EXCEPT !.originalTotal = @ + itemOriginalPrice,
                                !.afterDiscountTotal = @ + itemOriginalPrice])

\* each reduction tested against what is left after the earlier ones
ReductionBase_Running(acc) == acc.afterDiscountTotal - acc.totalReduction

\* calculateReduction(result.afterDiscountTotal)
ReductionBase(acc) == acc.afterDiscountTotal

RECURSIVE ReductionStage(_, _)
\* second loop of calculatePromotionResult
ReductionStage(fullReductions, acc) ==
    IF fullReductions = <<>> THEN acc
    ELSE LET r == Head(fullReductions)
             reductionAmount == calculateReduction(r, ReductionBase(acc))
         IN IF reductionAmount > 0
            THEN ReductionStage(Tail(fullReductions),
                    [acc EXCEPT !.totalReduction = @ + reductionAmount * Scale,
                                !.appliedPromotions = Append(@, <<"reduction",
                                                    r.thresholdAmount, r.reductionAmount>>)])
            ELSE ReductionStage(Tail(fullReductions), acc)

calculatePromotionResult(cartItems, currentTime) ==
    LET empty == [originalTotal |-> 0, afterDiscountTotal |-> 0, totalReduction |-> 0,
                  itemDiscounts |-> <<>>, appliedPromotions |-> <<>>]
        r == ReductionStage(getActiveFullReductions(currentTime),
                            DiscountStage(cartItems, currentTime, empty))
        finalTotal == r.afterDiscountTotal - r.totalReduction
    IN [originalTotal |-> r.originalTotal,
        afterDiscountTotal |-> r.afterDiscountTotal,
        totalReduction |-> r.totalReduction,
        finalTotal |-> finalTotal,
        totalSavings |-> r.originalTotal - finalTotal,
        itemDiscounts |-> r.itemDiscounts,
        appliedPromotions |-> r.appliedPromotions]

\* "PROMO" + zero-padded counter
PromotionIdOf(n) == <<"PROMO001", "PROMO002", "PROMO003", "PROMO004">>[n]

\* a validity window [startTime, endTime] and the active flag on a promotion
Windowed(p, startTime, endTime, active) ==
    [p EXCEPT !.startTime = startTime, !.endTime = endTime, !.isActive = active]

\* the promotions an administrator has entered, without their ids
SamplePromotions ==
    {DiscountPromo("", "A", 80, TRUE),
     DiscountPromo("", "-1", 80, TRUE),
     DiscountPromo("", "A", 50, FALSE),
     Windowed(DiscountPromo("", "-1", 50, TRUE), 0, 1, TRUE),
     FullReductionPromo("", 5, 1, TRUE),
     FullReductionPromo("", 8, 2, TRUE),
     Windowed(FullReductionPromo("", 3, 1, TRUE), 1, MaxTime + 1, TRUE)}

\* the catalogs of at most MaxPromotions sample promotions, ids by position
SampleCatalogs ==
    {[k \in 1..Len(c) |-> [c[k] EXCEPT !.promotionId = PromotionIdOf(k)]] :
        c \in UNION {[1..n -> SamplePromotions] : n \in 0..MaxPromotions}}

\* what the administrator enters in the catalog pages
PromotionIds == {PromotionIdOf(n) : n \in 1..(MaxPromotions + 1)}

NewPromotions ==
    {DiscountPromo(id, "A", 80, TRUE) : id \in PromotionIds}
    \cup {FullReductionPromo(id, 5, 1, TRUE) : id \in PromotionIds}

\* the rates typed into the edit page, in percent
RateInputs == {0, 50, Scale}

\* the thresholds and reductions typed into the edit page
AmountInputs == {0, 1, 3, 5}

\* the (start, end) pairs updatePromotionTime is called with
TimeInputs == {<<0, 1>>, <<1, 1>>, <<1, 2>>}

\* the catalogs the pricing preview is exercised with
PromotionCatalogs ==
    {<<>>,
     <<DiscountPromo("PROMO001", "A", 80, TRUE)>>,
     <<DiscountPromo("PROMO001", "-1", 50, TRUE), FullReductionPromo("PROMO002", 5, 1, TRUE)>>}

\* ---------------------------------------------------------------- Order
generateOrderId(userId, timestamp) == <<userId, timestamp>>

InsufficientStock(quantity, stock) == quantity > stock

\* the order total taken from the promotional price of the line
LineAmount_Promotional(itemId, price, quantity) ==
    LET d == getActiveDiscountForItem(itemId, now)
    IN IF d = 0 THEN price * quantity
       ELSE (calculateDiscountForItem(promotions[d], price) * quantity) \div Scale

\* totalAmount += item->getPrice() * quantity
LineAmount(itemId, price, quantity) == price * quantity

\* the stock lowered by one per line instead of by the quantity
StockAfterPurchase_PerLine(stock, quantity) == stock - 1

StockAfterPurchase(stock, quantity) == stock - quantity

\* the timer left at the default constructor's zero
InitialStatusChangeTime_Zero(orderTime) == 0

\* statusChangeTime = orderTime
InitialStatusChangeTime(orderTime) == orderTime

RECURSIVE CtorLoop(_, _)
\* the loop of Order::Order over cartItems; acc carries the order's items,
\* totalAmount and the live item table, thrown is set by the throw statement
CtorLoop(cartItems, acc) ==
    IF cartItems = <<>> THEN acc
    ELSE LET line == Head(cartItems)
             item == acc.items[line.item]
         IN IF InsufficientStock(line.quantity, item.stock)
            THEN [acc EXCEPT !.thrown = TRUE]
            ELSE CtorLoop(Tail(cartItems),
                    [acc EXCEPT !.orderItems = Append(@, [itemId |-> line.item,
                                                         itemName |-> ItemName(line.item),
                                                         price |-> item.price,
                                                         quantity |-> line.quantity]),
                                !.totalAmount = @ + LineAmount(line.item, item.price, line.quantity),
                                !.items[line.item].stock =
                                    StockAfterPurchase(item.stock, line.quantity)])

OrderCtor(userId, cartItems, shippingAddress) ==
    LET r == CtorLoop(cartItems, [thrown |-> FALSE, orderItems |-> <<>>,
                                   totalAmount |-> 0, items |-> items])
    IN [thrown |-> r.thrown,
        items |-> r.items,
        order |-> [orderId |-> generateOrderId(userId, now),
                   userId |-> userId,
                   items |-> r.orderItems,
                   orderTime |-> now,
                   totalAmount |-> r.totalAmount,
                   shippingAddress |-> shippingAddress,
                   status |-> "PENDING",
                   statusChangeTime |-> InitialStatusChangeTime(now)]]

getStatusString(status) ==
    CASE status = "PENDING" -> "daifahuo"
      [] status = "SHIPPED" -> "yifahuo"
      [] status = "DELIVERED" -> "yiqianshou"
      [] OTHER -> "weizhi"

\* ---------------------------------------------------------------- orders CSV
Header == [kind |-> "header"]
Hole == [kind |-> "hole"]

\* one line of saveToFile's loop
Row(o) ==
    [kind |-> "row", orderId |-> o.orderId, userId |-> o.userId, items |-> o.items,
     orderTime |-> o.orderTime, totalAmount |-> o.totalAmount,
     shippingAddress |-> o.shippingAddress, status |-> getStatusString(o.status),
     statusChangeTime |-> o.statusChangeTime]

\* a flushed write of one line at a stream's own offset; writing past the end
\* of a file another stream has truncated leaves a gap
WriteAt(f, k, rec) ==
    IF k < Len(f) THEN [f EXCEPT ![k + 1] = rec]
    ELSE f \o [i \in 1..(k - Len(f)) |-> Hole] \o <<rec>>

Other(t) == IF t = "fg" THEN "sched" ELSE "fg"

StreamOpen(t) == pc[t] \in {"save_header", "save_lock", "save_row"}

\* where saveToFile returns to
AfterSave(t) ==
    IF t = "sched" THEN "loop"
    ELSE CASE call.op = "create" -> "create_ret"
           [] call.op = "update" -> "update_ret"
           [] OTHER -> "save_ret"

\* the value saveToFile returns to its caller; the scheduler's call site
\* discards it
SaveReturned(t, value) ==
    IF t = "fg" THEN [call EXCEPT !.saved = value] ELSE call

\* std::ofstream file(filePath): truncates
SaveOpen(t) ==
    /\ pc[t] = "save_open"
    /\ file' = <<>>
    /\ off' = [off EXCEPT ![t] = 0]
    /\ overlapped' = (overlapped \/ StreamOpen(Other(t)))
    /\ UNCHANGED <<shippedSince, promotionsWritable>>
    /\ scanLog' = (IF t = "sched" THEN [scanLog EXCEPT !.writes = @ + 1] ELSE scanLog)
    /\ pc' = [pc EXCEPT ![t] = "save_header"]
    /\ UNCHANGED <<now, items, itemsFile, promotions, promotionsFile, orders, ordersMutex,
                   autoUpdateEnabled, pendingToShippedSeconds,
                   shippedToDeliveredSeconds, call, iter, sched, result>>

SaveHeader(t) ==
    /\ pc[t] = "save_header"
    /\ file' = WriteAt(file, off[t], Header)
    /\ off' = [off EXCEPT ![t] = @ + 1]
    /\ pc' = [pc EXCEPT ![t] = "save_lock"]
    /\ UNCHANGED <<now, items, itemsFile, promotions, promotionsFile, orders, ordersMutex,
                   autoUpdateEnabled, pendingToShippedSeconds,
                   shippedToDeliveredSeconds, call, iter, sched, result, overlapped, shippedSince, scanLog, promotionsWritable>>

SaveLock(t) ==
    /\ pc[t] = "save_lock"
    /\ ordersMutex = "free"
    /\ ordersMutex' = t
    /\ iter' = [iter EXCEPT ![t] = 1]
    /\ pc' = [pc EXCEPT ![t] = "save_row"]
    /\ UNCHANGED <<now, items, itemsFile, promotions, promotionsFile, orders, file,
                   autoUpdateEnabled, pendingToShippedSeconds,
                   shippedToDeliveredSeconds, call, off, sched, result, overlapped, shippedSince, scanLog, promotionsWritable>>

SaveRow(t) ==
    /\ pc[t] = "save_row"
    /\ iter[t] <= Len(orders)
    /\ file' = WriteAt(file, off[t], Row(orders[iter[t]]))
    /\ off' = [off EXCEPT ![t] = @ + 1]
    /\ iter' = [iter EXCEPT ![t] = @ + 1]
    /\ UNCHANGED <<now, items, itemsFile, promotions, promotionsFile, orders, ordersMutex,
                   autoUpdateEnabled, pendingToShippedSeconds,
                   shippedToDeliveredSeconds, pc, call, sched, result, overlapped, shippedSince, scanLog, promotionsWritable>>

\* file.close() and the end of the lock_guard's scope
SaveClose(t) ==
    /\ pc[t] = "save_row"
    /\ iter[t] > Len(orders)
    /\ ordersMutex' = "free"
    /\ off' = [off EXCEPT ![t] = 0]
    /\ iter' = [iter EXCEPT ![t] = 0]
    /\ pc' = [pc EXCEPT ![t] = AfterSave(t)]
    /\ call' = SaveReturned(t, "true")
    /\ UNCHANGED <<now, items, itemsFile, promotions, promotionsFile, orders, file,
                   autoUpdateEnabled, pendingToShippedSeconds,
                   shippedToDeliveredSeconds, sched, result, overlapped, shippedSince, scanLog, promotionsWritable>>

\* the ofstream cannot be opened (missing directory, read-only file): the file
\* is left as it is and saveToFile returns false
SaveOpenFail(t) ==
    /\ pc[t] = "save_open"
    /\ pc' = [pc EXCEPT ![t] = AfterSave(t)]
    /\ call' = SaveReturned(t, "false")
    /\ UNCHANGED <<now, items, itemsFile, promotions, promotionsFile, orders, file, ordersMutex,
                   autoUpdateEnabled, pendingToShippedSeconds,
                   shippedToDeliveredSeconds, off, iter, sched, result, overlapped, shippedSince, scanLog, promotionsWritable>>

\* a direct call of the public saveToFile (main calls it after a checkout)
SaveToFileCall ==
    /\ pc["fg"] = "idle"
    /\ call' = [op |-> "save", saved |-> "pending"]
    /\ result' = NoResult
    /\ overlapped' = FALSE
    /\ UNCHANGED <<shippedSince, scanLog, promotionsWritable>>
    /\ pc' = [pc EXCEPT !["fg"] = "save_open"]
    /\ UNCHANGED <<now, items, itemsFile, promotions, promotionsFile, orders, file, ordersMutex,
                   autoUpdateEnabled, pendingToShippedSeconds,
                   shippedToDeliveredSeconds, off, iter, sched>>

SaveToFileReturn ==
    /\ pc["fg"] = "save_ret"
    /\ call' = NoCall
    /\ result' = [op |-> "save", value |-> call.saved]
    /\ pc' = [pc EXCEPT !["fg"] = "idle"]
    /\ UNCHANGED <<now, items, itemsFile, promotions, promotionsFile, orders, file, ordersMutex,
                   autoUpdateEnabled, pendingToShippedSeconds,
                   shippedToDeliveredSeconds, off, iter, sched, overlapped, shippedSince, scanLog, promotionsWritable>>

\* ---------------------------------------------------------------- clock
Tick ==
    /\ now < MaxTime
    /\ now' = now + 1
    /\ UNCHANGED <<items, itemsFile, promotions, promotionsFile, orders, file, ordersMutex,
                   autoUpdateEnabled, pendingToShippedSeconds,
                   shippedToDeliveredSeconds, pc, call, off, iter, sched, result,
                   overlapped, shippedSince, scanLog, promotionsWritable>>

\* ---------------------------------------------------------------- createOrder
\* the checkout handler: the pricing preview is shown and confirmed, then
\* createOrder is entered with the basket
ConfirmOrder(room, userId, cartItems, shippingAddress) ==
    /\ pc["fg"] = "idle"
    /\ Len(orders) < room
    /\ call' = [op |-> "create", userId |-> userId, cartItems |-> cartItems,
                shippingAddress |-> shippingAddress, order |-> <<>>,
                saved |-> "pending",
                preview |-> calculatePromotionResult(cartItems, now).finalTotal]
    /\ result' = NoResult
    /\ overlapped' = FALSE
    /\ UNCHANGED <<shippedSince, scanLog, promotionsWritable>>
    /\ pc' = [pc EXCEPT !["fg"] = "create_ctor"]
    /\ UNCHANGED <<now, items, itemsFile, promotions, promotionsFile, orders, file, ordersMutex,
                   autoUpdateEnabled, pendingToShippedSeconds,
                   shippedToDeliveredSeconds, off, iter, sched>>

\* checkout while the order book holds fewer than MaxOrders orders
CallCreateOrder(userId, cartItems, shippingAddress) ==
    ConfirmOrder(MaxOrders, userId, cartItems, shippingAddress)

\* the exception swallowed inside the try block
AfterCtor_Swallowed(thrown) == "create_push"

\* try { make_shared<Order>(...) ... } catch: where control goes after the constructor
AfterCtor(thrown) == IF thrown THEN "idle" ELSE "create_push"

\* Order::Order runs; on success ItemManager::saveToFile persists the stock
CreateOrderCtor ==
    /\ pc["fg"] = "create_ctor"
    /\ LET r == OrderCtor(call.userId, call.cartItems, call.shippingAddress)
       IN /\ items' = r.items
          /\ pc' = [pc EXCEPT !["fg"] = AfterCtor(r.thrown)]
          /\ call' = (IF AfterCtor(r.thrown) = "idle" THEN NoCall
                      ELSE [call EXCEPT !.order = r.order])
          /\ IF r.thrown
             THEN /\ result' = [op |-> "create", value |-> "null"]
                  /\ UNCHANGED itemsFile
             ELSE /\ itemsFile' = [i \in ItemIds |-> r.items[i].stock]
                  /\ UNCHANGED result
    /\ UNCHANGED <<now, promotions, promotionsFile, orders, file, ordersMutex,
                   autoUpdateEnabled, pendingToShippedSeconds,
                   shippedToDeliveredSeconds, off, iter, sched, overlapped, shippedSince, scanLog, promotionsWritable>>

\* { lock_guard; orders.push_back(order); }
CreateOrderPush ==
    /\ pc["fg"] = "create_push"
    /\ ordersMutex = "free"
    /\ orders' = Append(orders, call.order)
    /\ shippedSince' = Append(shippedSince, -1)
    /\ pc' = [pc EXCEPT !["fg"] = "save_open"]
    /\ UNCHANGED <<now, items, itemsFile, promotions, promotionsFile, file, ordersMutex,
                   autoUpdateEnabled, pendingToShippedSeconds,
                   shippedToDeliveredSeconds, call, off, iter, sched, result,
                   overlapped, scanLog, promotionsWritable>>

CreateOrderReturn ==
    /\ pc["fg"] = "create_ret"
    /\ call' = NoCall
    /\ result' = [op |-> "create", value |-> "order"]
    /\ pc' = [pc EXCEPT !["fg"] = "idle"]
    /\ UNCHANGED <<now, items, itemsFile, promotions, promotionsFile, orders, file, ordersMutex,
                   autoUpdateEnabled, pendingToShippedSeconds,
                   shippedToDeliveredSeconds, off, iter, sched, overlapped, shippedSince, scanLog, promotionsWritable>>

\* ---------------------------------------------------------------- updateOrderStatus
RECURSIVE FindFrom(_, _)
\* std::find_if over orders: the first index whose id matches, or 0
FindFrom(k, orderId) ==
    IF k > Len(orders) THEN 0
    ELSE IF orders[k].orderId = orderId THEN k
    ELSE FindFrom(k + 1, orderId)

findOrderById(orderId) == FindFrom(1, orderId)

AbsentOrderId == <<"nobody", 0>>

KnownOrderIds == {orders[k].orderId : k \in 1..Len(orders)} \cup {AbsentOrderId}

\* findOrderById takes and releases the mutex; a null result returns false
setStatus_Recomputed(order, newStatus) ==
    [order EXCEPT !.status = newStatus, !.totalAmount = 0]

\* Order::setStatus, the assignment of the status field
setStatus(order, newStatus) == [order EXCEPT !.status = newStatus]

\* the history of the k-th order when its status is set to newStatus
BecameShipped(k, newStatus) ==
    IF newStatus # "SHIPPED" THEN [shippedSince EXCEPT ![k] = -1]
    ELSE IF orders[k].status # "SHIPPED" THEN [shippedSince EXCEPT ![k] = now]
    ELSE shippedSince

UpdateOrderStatus(orderId, newStatus) ==
    /\ pc["fg"] = "idle"
    /\ ordersMutex = "free"
    /\ overlapped' = FALSE
    /\ UNCHANGED <<shippedSince, scanLog, promotionsWritable>>
    /\ LET k == findOrderById(orderId)
       IN IF k = 0
          THEN /\ result' = [op |-> "update", value |-> "false"]
               /\ UNCHANGED <<pc, call>>
          ELSE /\ call' = [op |-> "update", target |-> k, newStatus |-> newStatus,
                           saved |-> "pending"]
               /\ result' = NoResult
               /\ pc' = [pc EXCEPT !["fg"] = "update_status"]
    /\ UNCHANGED <<now, items, itemsFile, promotions, promotionsFile, orders, file, ordersMutex,
                   autoUpdateEnabled, pendingToShippedSeconds,
                   shippedToDeliveredSeconds, off, iter, sched>>

\* Order::setStatus, first statement; no mutex is held
UpdateSetStatus ==
    /\ pc["fg"] = "update_status"
    /\ orders' = [orders EXCEPT ![call.target] = setStatus(@, call.newStatus)]
    /\ shippedSince' = BecameShipped(call.target, call.newStatus)
    /\ pc' = [pc EXCEPT !["fg"] = "update_time"]
    /\ UNCHANGED <<now, items, itemsFile, promotions, promotionsFile, file, ordersMutex,
                   autoUpdateEnabled, pendingToShippedSeconds,
                   shippedToDeliveredSeconds, call, off, iter, sched, result,
                   overlapped, scanLog, promotionsWritable>>

\* Order::setStatus, second statement
UpdateSetTime ==
    /\ pc["fg"] = "update_time"
    /\ orders' = [orders EXCEPT ![call.target].statusChangeTime = now]
    /\ pc' = [pc EXCEPT !["fg"] = "save_open"]
    /\ UNCHANGED <<now, items, itemsFile, promotions, promotionsFile, file, ordersMutex,
                   autoUpdateEnabled, pendingToShippedSeconds,
                   shippedToDeliveredSeconds, call, off, iter, sched, result,
                   overlapped, shippedSince, scanLog, promotionsWritable>>

UpdateOrderStatusReturn ==
    /\ pc["fg"] = "update_ret"
    /\ call' = NoCall
    /\ result' = [op |-> "update", value |-> "true"]
    /\ pc' = [pc EXCEPT !["fg"] = "idle"]
    /\ UNCHANGED <<now, items, itemsFile, promotions, promotionsFile, orders, file, ordersMutex,
                   autoUpdateEnabled, pendingToShippedSeconds,
                   shippedToDeliveredSeconds, off, iter, sched, overlapped, shippedSince, scanLog, promotionsWritable>>

\* ---------------------------------------------------------------- scheduler control
\* the flag not looked at
AlreadyEnabled_Ignored(enabled) == FALSE

\* if (autoUpdateEnabled) return;
AlreadyEnabled(enabled) == enabled

EnableAutoUpdate(pendingToShipped, shippedToDelivered) ==
    /\ pc["fg"] = "idle"
    /\ overlapped' = FALSE
    /\ UNCHANGED <<shippedSince, scanLog, promotionsWritable>>
    /\ IF AlreadyEnabled(autoUpdateEnabled)
       THEN /\ result' = [op |-> "enable", value |-> "already"]
            /\ UNCHANGED <<autoUpdateEnabled, pendingToShippedSeconds,
                           shippedToDeliveredSeconds, pc>>
       ELSE /\ pendingToShippedSeconds' = pendingToShipped
            /\ shippedToDeliveredSeconds' = shippedToDelivered
            /\ autoUpdateEnabled' = TRUE
            /\ pc' = [pc EXCEPT !["sched"] = "loop"]
            /\ result' = [op |-> "enable", value |-> "started"]
    /\ UNCHANGED <<now, items, itemsFile, promotions, promotionsFile, orders, file, ordersMutex,
                   call, off, iter, sched>>

\* the thread detached instead of joined
JoinReady_Detached(schedPc) == TRUE

\* what join() waits for
JoinReady(schedPc) == schedPc \in {"off", "exited"}

\* disableAutoUpdate, also as the body of the destructor (destroy = TRUE)
DisableAutoUpdate(destroy) ==
    /\ pc["fg"] = "idle"
    /\ overlapped' = FALSE
    /\ UNCHANGED <<shippedSince, scanLog, promotionsWritable>>
    /\ IF ~autoUpdateEnabled
       THEN /\ result' = [op |-> "disable", value |-> "noop"]
            /\ pc' = [pc EXCEPT !["fg"] = IF destroy THEN "destroyed" ELSE "idle"]
            /\ UNCHANGED <<autoUpdateEnabled, call>>
       ELSE /\ autoUpdateEnabled' = FALSE
            /\ call' = [op |-> "disable", destroy |-> destroy]
            /\ result' = NoResult
            /\ pc' = [pc EXCEPT !["fg"] = "join"]
    /\ UNCHANGED <<now, items, itemsFile, promotions, promotionsFile, orders, file, ordersMutex,
                   pendingToShippedSeconds, shippedToDeliveredSeconds, off, iter,
                   sched>>

\* if (joinable()) join(); returns once the thread function has returned
Join ==
    /\ pc["fg"] = "join"
    /\ JoinReady(pc["sched"])
    /\ pc' = [pc EXCEPT !["sched"] = IF @ = "exited" THEN "off" ELSE @,
                        !["fg"] = IF call.destroy THEN "destroyed" ELSE "idle"]
    /\ call' = NoCall
    /\ result' = [op |-> "disable", value |-> "joined"]
    /\ UNCHANGED <<now, items, itemsFile, promotions, promotionsFile, orders, file, ordersMutex,
                   autoUpdateEnabled, pendingToShippedSeconds,
                   shippedToDeliveredSeconds, off, iter, sched, overlapped, shippedSince, scanLog, promotionsWritable>>

\* ---------------------------------------------------------------- autoUpdateOrderStatus
\* while (autoUpdateEnabled) { sleep_for(1s) ...
SchedLoop ==
    /\ pc["sched"] = "loop"
    /\ IF autoUpdateEnabled
       THEN /\ pc' = [pc EXCEPT !["sched"] = "sleep"]
            /\ sched' = [SchedIdle EXCEPT !.currentTime = now]
       ELSE /\ pc' = [pc EXCEPT !["sched"] = "exited"]
            /\ sched' = SchedIdle
    /\ UNCHANGED <<now, items, itemsFile, promotions, promotionsFile, orders, file, ordersMutex,
                   autoUpdateEnabled, pendingToShippedSeconds,
                   shippedToDeliveredSeconds, call, off, iter, result, overlapped, shippedSince, promotionsWritable>>
    /\ scanLog' = NoScan

\* a poll every other second
SleepOver_TwoSeconds(sleptAt) == now > sleptAt + 1

\* sleep_for(seconds(1)) returns
SleepOver(sleptAt) == now > sleptAt

\* the sleep of one second is over: currentTime = time(nullptr), needSave = false
SchedWake ==
    /\ pc["sched"] = "sleep"
    /\ SleepOver(sched.currentTime)
    /\ sched' = [currentTime |-> now, needSave |-> FALSE, decision |-> "NONE"]
    /\ pc' = [pc EXCEPT !["sched"] = "scan_lock"]
    /\ UNCHANGED <<now, items, itemsFile, promotions, promotionsFile, orders, file, ordersMutex,
                   autoUpdateEnabled, pendingToShippedSeconds,
                   shippedToDeliveredSeconds, call, off, iter, result, overlapped, shippedSince, scanLog, promotionsWritable>>

SchedLock ==
    /\ pc["sched"] = "scan_lock"
    /\ ordersMutex = "free"
    /\ ordersMutex' = "sched"
    /\ iter' = [iter EXCEPT !["sched"] = 1]
    /\ pc' = [pc EXCEPT !["sched"] = "scan_check"]
    /\ UNCHANGED <<now, items, itemsFile, promotions, promotionsFile, orders, file,
                   autoUpdateEnabled, pendingToShippedSeconds,
                   shippedToDeliveredSeconds, call, off, sched, result, overlapped, shippedSince, promotionsWritable>>
    /\ scanLog' = NoScan

\* a strict comparison with the threshold
Elapsed_Strict(threshold, timeSinceStatusChange) == timeSinceStatusChange > threshold

Elapsed(threshold, timeSinceStatusChange) == timeSinceStatusChange >= threshold

\* the if / else-if of the scan for one order
ScanDecision(o, currentTime) ==
    LET timeSinceStatusChange == currentTime - o.statusChangeTime
    IN IF o.status = "PENDING" /\ Elapsed(pendingToShippedSeconds, timeSinceStatusChange)
       THEN "SHIPPED"
       ELSE IF o.status = "SHIPPED"
               /\ Elapsed(shippedToDeliveredSeconds, timeSinceStatusChange)
       THEN "DELIVERED"
       ELSE "NONE"

\* one evaluation of the loop body's conditions
SchedCheck ==
    /\ pc["sched"] = "scan_check"
    /\ iter["sched"] <= Len(orders)
    /\ LET d == ScanDecision(orders[iter["sched"]], sched.currentTime)
       IN IF d = "NONE"
          THEN /\ iter' = [iter EXCEPT !["sched"] = @ + 1]
               /\ UNCHANGED <<pc, sched>>
          ELSE /\ sched' = [sched EXCEPT !.decision = d]
               /\ pc' = [pc EXCEPT !["sched"] = "scan_status"]
               /\ UNCHANGED iter
    /\ UNCHANGED <<now, items, itemsFile, promotions, promotionsFile, orders, file, ordersMutex,
                   autoUpdateEnabled, pendingToShippedSeconds,
                   shippedToDeliveredSeconds, call, off, result, overlapped, shippedSince, scanLog, promotionsWritable>>

\* order->setStatus(...), first statement
SchedSetStatus ==
    /\ pc["sched"] = "scan_status"
    /\ orders' = [orders EXCEPT ![iter["sched"]] = setStatus(@, sched.decision)]
    /\ shippedSince' = BecameShipped(iter["sched"], sched.decision)
    /\ scanLog' = [scanLog EXCEPT !.moved = @ + 1]
    /\ pc' = [pc EXCEPT !["sched"] = "scan_time"]
    /\ UNCHANGED <<now, items, itemsFile, promotions, promotionsFile, file, ordersMutex,
                   autoUpdateEnabled, pendingToShippedSeconds,
                   shippedToDeliveredSeconds, call, off, iter, sched, result,
                   overlapped, promotionsWritable>>

\* the transition not flagged for saving
NeedSaveAfterTransition_Forgotten(needSave) == needSave

\* needSave = true
NeedSaveAfterTransition(needSave) == TRUE

\* order->setStatus(...), second statement; needSave = true
SchedSetTime ==
    /\ pc["sched"] = "scan_time"
    /\ orders' = [orders EXCEPT ![iter["sched"]].statusChangeTime = now]
    /\ sched' = [sched EXCEPT !.needSave = NeedSaveAfterTransition(@),
                              !.decision = "NONE"]
    /\ iter' = [iter EXCEPT !["sched"] = @ + 1]
    /\ pc' = [pc EXCEPT !["sched"] = "scan_check"]
    /\ UNCHANGED <<now, items, itemsFile, promotions, promotionsFile, file, ordersMutex,
                   autoUpdateEnabled, pendingToShippedSeconds,
                   shippedToDeliveredSeconds, call, off, result, overlapped, shippedSince, scanLog, promotionsWritable>>

\* saveToFile() after every scan
AfterScan_AlwaysSave(needSave) == "save_open"

\* if (needSave) saveToFile()
AfterScan(needSave) == IF needSave THEN "save_open" ELSE "loop"

\* the end of the locked block
SchedUnlock ==
    /\ pc["sched"] = "scan_check"
    /\ iter["sched"] > Len(orders)
    /\ ordersMutex' = "free"
    /\ iter' = [iter EXCEPT !["sched"] = 0]
    /\ pc' = [pc EXCEPT !["sched"] = AfterScan(sched.needSave)]
    /\ sched' = SchedIdle
    /\ UNCHANGED <<now, items, itemsFile, promotions, promotionsFile, orders, file,
                   autoUpdateEnabled, pendingToShippedSeconds,
                   shippedToDeliveredSeconds, call, off, result, overlapped, shippedSince, scanLog, promotionsWritable>>

\* ---------------------------------------------------------------- CSV text
\* A line of text is a sequence of tokens: the separator, a piece of text
\* without separator, or a number as the stream prints it.
Sep == [t |-> "sep", s |-> ",", n |-> 0]
Text(str) == [t |-> "text", s |-> str, n |-> 0]
Num(num) == [t |-> "num", s |-> "", n |-> num]

\* the tokens of the free texts the console accepts
TokensOf(str) ==
    CASE str = "" -> <<>>
      [] str = "Room 1, Street 2" -> <<Text("Room 1"), Sep, Text(" Street 2")>>
      [] OTHER -> <<Text(str)>>

RECURSIVE PowerOfTen(_)
PowerOfTen(e) == IF e = 0 THEN 1 ELSE 10 * PowerOfTen(e - 1)

RECURSIVE DigitsOf(_)
DigitsOf(x) == IF x < 10 THEN 1 ELSE 1 + DigitsOf(x \div 10)

\* operator<<(double) at the default precision: six significant digits,
\* rounded to nearest
FormatDouble(x) ==
    IF DigitsOf(x) <= 6 THEN x
    ELSE LET unit == PowerOfTen(DigitsOf(x) - 6)
         IN ((x + unit \div 2) \div unit) * unit

RECURSIVE SplitOnSep(_, _)
\* while (getline(ss, field, ',')): the fields of a line; no field follows a
\* trailing separator
SplitOnSep(tokens, field) ==
    IF tokens = <<>> THEN (IF field = <<>> THEN <<>> ELSE <<field>>)
    ELSE IF Head(tokens).t = "sep" THEN <<field>> \o SplitOnSep(Tail(tokens), <<>>)
    ELSE SplitOnSep(Tail(tokens), Append(field, Head(tokens)))

parseCSVLine(line) == SplitOnSep(line, <<>>)

\* the field as a string
FieldString(field) ==
    IF field = <<>> THEN ""
    ELSE IF Len(field) = 1 /\ field[1].t = "text" THEN field[1].s
    ELSE "(mixed)"

\* std::stod / std::stoll accept a field that starts with a number
StartsWithNumber(field) == field # <<>> /\ field[1].t = "num"

NumberOf(field) == field[1].n

\* ---------------------------------------------------------------- orders CSV text
\* orderItemsToString: the lines with their prices as the stream prints them
\* (the ':' and ';' separators do not occur in item ids and names)
orderItemsToString(orderItems) ==
    [k \in 1..Len(orderItems) |->
        [orderItems[k] EXCEPT !.price = FormatDouble(orderItems[k].price)]]

parseOrderItems(field) == IF field = <<>> THEN <<>> ELSE field[1].s

\* the text of one line of the loop of OrderManager::saveToFile
OrderLine(row) ==
    <<Text(row.orderId), Sep, Text(row.userId), Sep,
      Text(orderItemsToString(row.items)), Sep, Num(row.orderTime), Sep,
      Num(FormatDouble(row.totalAmount)), Sep>>
    \o TokensOf(row.shippingAddress)
    \o <<Sep, Text(row.status), Sep, Num(row.statusChangeTime)>>

stringToStatus(statusStr) ==
    IF statusStr \in {"daifahuo", "PENDING"} THEN "PENDING"
    ELSE IF statusStr \in {"yifahuo", "SHIPPED"} THEN "SHIPPED"
    ELSE IF statusStr \in {"yiqianshou", "DELIVERED"} THEN "DELIVERED"
    ELSE "PENDING"

\* the body of the loop of OrderManager::loadFromFile for one line after the
\* header: an order, or nothing when the line is short or a conversion throws
LoadOrderLine(entry) ==
    IF entry.kind # "row" THEN <<>>
    ELSE LET fields == parseCSVLine(OrderLine(entry))
         IN IF Len(fields) < 8 THEN <<>>
            ELSE IF \/ ~StartsWithNumber(fields[4])
                    \/ ~StartsWithNumber(fields[5])
                    \/ ~StartsWithNumber(fields[8])
            THEN <<>>
            ELSE <<[orderId |-> FieldString(fields[1]),
                    userId |-> FieldString(fields[2]),
                    items |-> parseOrderItems(fields[3]),
                    orderTime |-> NumberOf(fields[4]),
                    totalAmount |-> NumberOf(fields[5]),
                    shippingAddress |-> FieldString(fields[6]),
                    status |-> stringToStatus(FieldString(fields[7])),
                    statusChangeTime |-> NumberOf(fields[8])]>>

RECURSIVE LoadOrderLines(_)
LoadOrderLines(entries) ==
    IF entries = <<>> THEN <<>>
    ELSE LoadOrderLine(Head(entries)) \o LoadOrderLines(Tail(entries))

\* the program starts again: main calls orderManager.loadFromFile()
OrdersLoadFromFile ==
    /\ pc["fg"] = "idle"
    /\ ordersMutex = "free"
    /\ orders' = (IF file = <<>> THEN orders ELSE LoadOrderLines(Tail(file)))
    /\ result' = [op |-> "load", value |-> "true"]
    /\ overlapped' = FALSE
    /\ UNCHANGED <<scanLog, promotionsWritable>>
    /\ shippedSince' = [k \in 1..Len(orders') |->
           IF orders'[k].status = "SHIPPED" THEN orders'[k].statusChangeTime ELSE -1]
    /\ UNCHANGED <<now, items, itemsFile, promotions, promotionsFile, file,
                   ordersMutex, autoUpdateEnabled, pendingToShippedSeconds,
                   shippedToDeliveredSeconds, pc, call, off, iter, sched>>

\* ---------------------------------------------------------------- promotions CSV
PromotionsHeader == <<Text("promotion_id"), Sep, Text("promotion_name"), Sep,
                      Text("promotion_type"), Sep, Text("is_active"), Sep,
                      Text("start_time"), Sep, Text("end_time"), Sep,
                      Text("target_item_id"), Sep, Text("discount_rate"), Sep,
                      Text("threshold_amount"), Sep, Text("reduction_amount")>>

\* one iteration of the loop of PromotionManager::saveToFile
PromotionLine(p) ==
    <<Text(p.promotionId), Sep>> \o TokensOf(p.promotionName)
    \o <<Sep, Text(IF p.promotionType = "DISCOUNT" THEN "DISCOUNT" ELSE "FULL_REDUCTION"),
         Sep, Text(IF p.isActive THEN "1" ELSE "0"),
         Sep, Num(p.startTime), Sep, Num(p.endTime), Sep>>
    \o (IF p.promotionType = "DISCOUNT"
        THEN TokensOf(p.targetItemId)
             \o <<Sep, Num(FormatDouble(p.discountRate)), Text("_"), Sep, Text("_"), Sep>>
        ELSE <<Sep, Text("_"), Sep, Text("_"), Num(FormatDouble(p.thresholdAmount)),
               Sep, Num(FormatDouble(p.reductionAmount))>>)

PromotionsFileOf(catalog) ==
    <<PromotionsHeader>> \o [k \in 1..Len(catalog) |-> PromotionLine(catalog[k])]

stringToTime(field) == IF StartsWithNumber(field) THEN NumberOf(field) ELSE 0

\* the body of the loop of loadFromFile for one line: the line is skipped,
\* yields a promotion, or std::stod throws
LoadPromotionLine(line) ==
    LET fields == parseCSVLine(line)
    IN IF line = <<>> \/ Len(fields) < 10 THEN [kind |-> "skip"]
       ELSE LET typeStr == FieldString(fields[3])
                common == [promotionId |-> FieldString(fields[1]),
                           promotionName |-> FieldString(fields[2]),
                           isActive |-> FieldString(fields[4]) \in {"1", "true"},
                           startTime |-> stringToTime(fields[5]),
                           endTime |-> stringToTime(fields[6])]
            IN IF typeStr = "DISCOUNT"
               THEN IF fields[8] # <<>> /\ ~StartsWithNumber(fields[8])
                    THEN [kind |-> "throw"]
                    ELSE [kind |-> "promotion",
                          promotion |->
                            [promotionId |-> common.promotionId,
                             promotionName |-> common.promotionName,
                             promotionType |-> "DISCOUNT",
                             isActive |-> common.isActive,
                             startTime |-> common.startTime,
                             endTime |-> common.endTime,
                             targetItemId |-> FieldString(fields[7]),
                             discountRate |-> IF fields[8] = <<>> THEN Scale
                                              ELSE NumberOf(fields[8]),
                             thresholdAmount |-> 0, reductionAmount |-> 0]]
               ELSE IF typeStr = "FULL_REDUCTION"
               THEN IF \/ fields[9] # <<>> /\ ~StartsWithNumber(fields[9])
                       \/ fields[10] # <<>> /\ ~StartsWithNumber(fields[10])
                    THEN [kind |-> "throw"]
                    ELSE [kind |-> "promotion",
                          promotion |->
                            [promotionId |-> common.promotionId,
                             promotionName |-> common.promotionName,
                             promotionType |-> "FULL_REDUCTION",
                             isActive |-> common.isActive,
                             startTime |-> common.startTime,
                             endTime |-> common.endTime,
                             targetItemId |-> "",
                             discountRate |-> Scale,
                             thresholdAmount |-> IF fields[9] = <<>> THEN 0
                                                 ELSE NumberOf(fields[9]),
                             reductionAmount |-> IF fields[10] = <<>> THEN 0
                                                 ELSE NumberOf(fields[10])]]
               ELSE [kind |-> "skip"]

RECURSIVE LoadPromotionLines(_, _)
\* the while loop of loadFromFile over the lines after the header
LoadPromotionLines(lines, loaded) ==
    IF lines = <<>> THEN [thrown |-> FALSE, promotions |-> loaded]
    ELSE LET r == LoadPromotionLine(Head(lines))
         IN CASE r.kind = "skip" -> LoadPromotionLines(Tail(lines), loaded)
              [] r.kind = "throw" -> [thrown |-> TRUE, promotions |-> loaded]
              [] OTHER -> LoadPromotionLines(Tail(lines), Append(loaded, r.promotion))

\* ---------------------------------------------------------------- promotion catalog
\* the duplicate check never finding the id
IdTaken_Never(catalog, promotionId) == FALSE

\* the loop of addPromotion over the existing ids
IdTaken(catalog, promotionId) ==
    \E k \in 1..Len(catalog) : catalog[k].promotionId = promotionId

RECURSIVE FindPromotionFrom(_, _)
\* findPromotionById: the first position with the id, or 0
FindPromotionFrom(k, promotionId) ==
    IF k > Len(promotions) THEN 0
    ELSE IF promotions[k].promotionId = promotionId THEN k
    ELSE FindPromotionFrom(k + 1, promotionId)

findPromotionById(promotionId) == FindPromotionFrom(1, promotionId)

\* the outcome of a command stays on the console until the menu loop comes
\* round again
BackToMenu ==
    /\ pc["fg"] = "shown"
    /\ pc' = [pc EXCEPT !["fg"] = "idle"]
    /\ result' = NoResult
    /\ call' = NoCall
    /\ UNCHANGED <<now, items, itemsFile, promotions, promotionsFile, orders, file,
                   ordersMutex, autoUpdateEnabled, pendingToShippedSeconds,
                   shippedToDeliveredSeconds, off, iter, sched, overlapped, shippedSince, scanLog, promotionsWritable>>

\* the mutation undone when the promotions CSV does not open
KeptAfterSave_RolledBack(catalog, opened) == IF opened THEN catalog ELSE promotions

\* saveToFile leaves the promotions vector as it finds it
KeptAfterSave(catalog, opened) == catalog

\* a mutation of the catalog followed by return saveToFile(): the ofstream
\* opens and the catalog is written, or it does not and false is returned
MutateAndSave(op, promotionId, catalog) ==
    /\ promotions' = KeptAfterSave(catalog, promotionsWritable)
    /\ promotionsFile' = (IF promotionsWritable THEN PromotionsFileOf(catalog)
                          ELSE promotionsFile)
    /\ result' = [op |-> op, promotionId |-> promotionId,
                  value |-> IF promotionsWritable THEN "true" ELSE "false"]
    /\ pc' = [pc EXCEPT !["fg"] = "shown"]

\* return false before anything is touched
Rejected(op, promotionId) ==
    /\ result' = [op |-> op, promotionId |-> promotionId, value |-> "false"]
    /\ pc' = [pc EXCEPT !["fg"] = "shown"]
    /\ UNCHANGED <<promotions, promotionsFile>>

AddPromotion(promotion) ==
    /\ pc["fg"] = "idle"
    /\ call' = [op |-> "add", promotion |-> promotion]
    /\ IF IdTaken(promotions, promotion.promotionId)
       THEN Rejected("add", promotion.promotionId)
       ELSE /\ Len(promotions) < MaxPromotions
            /\ MutateAndSave("add", promotion.promotionId, Append(promotions, promotion))
    /\ UNCHANGED <<now, items, itemsFile, orders, file, ordersMutex,
                   autoUpdateEnabled, pendingToShippedSeconds,
                   shippedToDeliveredSeconds, off, iter, sched, overlapped, shippedSince, scanLog, promotionsWritable>>

\* remove_if / erase of every promotion with the id
DeletePromotion(promotionId) ==
    /\ pc["fg"] = "idle"
    /\ call' = [op |-> "delete", promotionId |-> promotionId]
    /\ IF ~\E k \in 1..Len(promotions) : promotions[k].promotionId = promotionId
       THEN Rejected("delete", promotionId)
       ELSE MutateAndSave("delete", promotionId,
                SelectSeq(promotions, LAMBDA q : q.promotionId # promotionId))
    /\ UNCHANGED <<now, items, itemsFile, orders, file, ordersMutex,
                   autoUpdateEnabled, pendingToShippedSeconds,
                   shippedToDeliveredSeconds, off, iter, sched, overlapped, shippedSince, scanLog, promotionsWritable>>

\* the first promotion with the id is replaced by the given one
UpdatePromotion(promotion) ==
    /\ pc["fg"] = "idle"
    /\ call' = [op |-> "update", promotion |-> promotion]
    /\ LET k == findPromotionById(promotion.promotionId)
       IN IF k = 0
          THEN Rejected("update", promotion.promotionId)
          ELSE MutateAndSave("update", promotion.promotionId,
                             [promotions EXCEPT ![k] = promotion])
    /\ UNCHANGED <<now, items, itemsFile, orders, file, ordersMutex,
                   autoUpdateEnabled, pendingToShippedSeconds,
                   shippedToDeliveredSeconds, off, iter, sched, overlapped, shippedSince, scanLog, promotionsWritable>>

UpdateDiscountRate(promotionId, newRate) ==
    /\ pc["fg"] = "idle"
    /\ call' = [op |-> "rate", promotionId |-> promotionId, newRate |-> newRate]
    /\ LET k == findPromotionById(promotionId)
       IN IF k = 0 THEN Rejected("rate", promotionId)
          ELSE IF promotions[k].promotionType # "DISCOUNT" THEN Rejected("rate", promotionId)
          ELSE IF newRate <= 0 \/ newRate >= Scale THEN Rejected("rate", promotionId)
          ELSE MutateAndSave("rate", promotionId,
                             [promotions EXCEPT ![k].discountRate = newRate])
    /\ UNCHANGED <<now, items, itemsFile, orders, file, ordersMutex,
                   autoUpdateEnabled, pendingToShippedSeconds,
                   shippedToDeliveredSeconds, off, iter, sched, overlapped, shippedSince, scanLog, promotionsWritable>>

\* a threshold equal to the reduction let through
ThresholdTooLow_Strict(newThreshold, reductionAmount) == newThreshold < reductionAmount

\* if (newThreshold <= promotion->getReductionAmount())
ThresholdTooLow(newThreshold, reductionAmount) == newThreshold <= reductionAmount

UpdateFullReductionThreshold(promotionId, newThreshold) ==
    /\ pc["fg"] = "idle"
    /\ call' = [op |-> "threshold", promotionId |-> promotionId,
                newThreshold |-> newThreshold]
    /\ LET k == findPromotionById(promotionId)
       IN IF k = 0 THEN Rejected("threshold", promotionId)
          ELSE IF promotions[k].promotionType # "FULL_REDUCTION"
          THEN Rejected("threshold", promotionId)
          ELSE IF newThreshold <= 0 THEN Rejected("threshold", promotionId)
          ELSE IF ThresholdTooLow(newThreshold, promotions[k].reductionAmount)
          THEN Rejected("threshold", promotionId)
          ELSE MutateAndSave("threshold", promotionId,
                             [promotions EXCEPT ![k].thresholdAmount = newThreshold])
    /\ UNCHANGED <<now, items, itemsFile, orders, file, ordersMutex,
                   autoUpdateEnabled, pendingToShippedSeconds,
                   shippedToDeliveredSeconds, off, iter, sched, overlapped,
                   shippedSince, scanLog, promotionsWritable>>

UpdateFullReductionAmount(promotionId, newReduction) ==
    /\ pc["fg"] = "idle"
    /\ call' = [op |-> "reduction", promotionId |-> promotionId,
                newReduction |-> newReduction]
    /\ LET k == findPromotionById(promotionId)
       IN IF k = 0 THEN Rejected("reduction", promotionId)
          ELSE IF promotions[k].promotionType # "FULL_REDUCTION"
          THEN Rejected("reduction", promotionId)
          ELSE IF newReduction <= 0 THEN Rejected("reduction", promotionId)
          ELSE IF newReduction >= promotions[k].thresholdAmount
          THEN Rejected("reduction", promotionId)
          ELSE MutateAndSave("reduction", promotionId,
                             [promotions EXCEPT ![k].reductionAmount = newReduction])
    /\ UNCHANGED <<now, items, itemsFile, orders, file, ordersMutex,
                   autoUpdateEnabled, pendingToShippedSeconds,
                   shippedToDeliveredSeconds, off, iter, sched, overlapped,
                   shippedSince, scanLog, promotionsWritable>>

UpdatePromotionTime(promotionId, newStartTime, newEndTime) ==
    /\ pc["fg"] = "idle"
    /\ call' = [op |-> "time", promotionId |-> promotionId,
                newStartTime |-> newStartTime, newEndTime |-> newEndTime]
    /\ LET k == findPromotionById(promotionId)
       IN IF k = 0 THEN Rejected("time", promotionId)
          ELSE IF newEndTime <= newStartTime THEN Rejected("time", promotionId)
          ELSE MutateAndSave("time", promotionId,
                             [promotions EXCEPT ![k].startTime = newStartTime,
                                                ![k].endTime = newEndTime])
    /\ UNCHANGED <<now, items, itemsFile, orders, file, ordersMutex,
                   autoUpdateEnabled, pendingToShippedSeconds,
                   shippedToDeliveredSeconds, off, iter, sched, overlapped,
                   shippedSince, scanLog, promotionsWritable>>

SetPromotionActive(promotionId, isActive) ==
    /\ pc["fg"] = "idle"
    /\ call' = [op |-> "active", promotionId |-> promotionId, isActive |-> isActive]
    /\ LET k == findPromotionById(promotionId)
       IN IF k = 0 THEN Rejected("active", promotionId)
          ELSE MutateAndSave("active", promotionId,
                             [promotions EXCEPT ![k].isActive = isActive])
    /\ UNCHANGED <<now, items, itemsFile, orders, file, ordersMutex,
                   autoUpdateEnabled, pendingToShippedSeconds,
                   shippedToDeliveredSeconds, off, iter, sched, overlapped, shippedSince, scanLog, promotionsWritable>>

\* the program starts again: main calls promotionManager.loadFromFile()
\* outside any try block
PromotionsLoadFromFile ==
    /\ pc["fg"] = "idle"
    /\ IF promotionsFile = <<>>
       THEN /\ result' = [op |-> "load", promotionId |-> "", value |-> "false"]
            /\ pc' = [pc EXCEPT !["fg"] = "shown"]
            /\ UNCHANGED promotions
       ELSE LET r == LoadPromotionLines(Tail(promotionsFile), <<>>)
            IN /\ promotions' = r.promotions
               /\ result' = [op |-> "load", promotionId |-> "",
                              value |-> IF r.thrown THEN "exception" ELSE "true"]
               /\ pc' = [pc EXCEPT !["fg"] = IF r.thrown THEN "terminated" ELSE "shown"]
    /\ UNCHANGED <<now, items, itemsFile, promotionsFile, orders, file, ordersMutex,
                   autoUpdateEnabled, pendingToShippedSeconds,
                   shippedToDeliveredSeconds, call, off, iter, sched, overlapped, shippedSince, scanLog, promotionsWritable>>

\* ---------------------------------------------------------------- promotion ids
\* the characters of the ids that occur: the program's own ids and ids found
\* in a promotions CSV written by hand or by another tool
PromoChars == <<"P", "R", "O", "M", "O">>

Digits == <<"0", "1", "2", "3", "4", "5", "6", "7", "8", "9">>

IdChars(id) ==
    CASE id = "PROMO001" -> PromoChars \o <<"0", "0", "1">>
      [] id = "PROMO002" -> PromoChars \o <<"0", "0", "2">>
      [] id = "PROMO003" -> PromoChars \o <<"0", "0", "3">>
      [] id = "PROMO004" -> PromoChars \o <<"0", "0", "4">>
      [] id = "PROMO005" -> PromoChars \o <<"0", "0", "5">>
      [] id = "PROMO006" -> PromoChars \o <<"0", "0", "6">>
      [] id = "PROMO007" -> PromoChars \o <<"0", "0", "7">>
      [] id = "PROMO008" -> PromoChars \o <<"0", "0", "8">>
      [] id = "PROMO009" -> PromoChars \o <<"0", "0", "9">>
      [] id = "PROMO010" -> PromoChars \o <<"0", "1", "0">>
      [] id = "PROMO12" -> PromoChars \o <<"1", "2">>
      [] id = "PROMO0002" -> PromoChars \o <<"0", "0", "0", "2">>
      [] id = "PROMO005x" -> PromoChars \o <<"0", "0", "5", "x">>
      [] id = "SALE0009" -> <<"S", "A", "L", "E", "0", "0", "0", "9">>

KnownIds ==
    {"PROMO001", "PROMO002", "PROMO003", "PROMO004", "PROMO005", "PROMO006",
     "PROMO007", "PROMO008", "PROMO009", "PROMO010",
     "PROMO12", "PROMO0002", "PROMO005x", "SALE0009"}

\* the ids a promotions CSV on disk may carry
LoadedIds == {"PROMO001", "PROMO003", "PROMO12", "PROMO0002", "PROMO005x", "SALE0009"}

IsDigit(c) == \E d \in 1..10 : Digits[d] = c

DigitValue(c) == (CHOOSE d \in 1..10 : Digits[d] = c) - 1

\* id.substr(pos) and id.substr(0, n)
SubstrFrom(chars, pos) == SubSeq(chars, pos + 1, Len(chars))

SubstrTo(chars, n) == SubSeq(chars, 1, IF n < Len(chars) THEN n ELSE Len(chars))

RECURSIVE StoiFrom(_, _, _)
\* std::stoi: the leading digits are converted and what follows them is
\* ignored; with no leading digit it throws
StoiFrom(chars, value, any) ==
    IF chars # <<>> /\ IsDigit(Head(chars))
    THEN StoiFrom(Tail(chars), 10 * value + DigitValue(Head(chars)), TRUE)
    ELSE [thrown |-> ~any, value |-> value]

stoi(chars) == StoiFrom(chars, 0, FALSE)

RECURSIVE DecimalOf(_)
\* operator<<(int)
DecimalOf(n) ==
    IF n < 10 THEN <<Digits[n + 1]>>
    ELSE Append(DecimalOf(n \div 10), Digits[(n % 10) + 1])

RECURSIVE FillTo(_, _)
\* setfill('0') with setw(width)
FillTo(chars, width) ==
    IF Len(chars) >= width THEN chars ELSE FillTo(<<"0">> \o chars, width)

\* the id with the given characters
IdOfChars(chars) == CHOOSE id \in KnownIds : IdChars(id) = chars

RECURSIVE MaxNumFrom(_, _, _)
\* the loop of generatePromotionId over the catalog
MaxNumFrom(catalog, k, maxNum) ==
    IF k > Len(catalog) THEN maxNum
    ELSE LET id == IdChars(catalog[k].promotionId)
             parsed == stoi(SubstrFrom(id, 5))
         IN IF Len(id) >= 8 /\ SubstrTo(id, 5) = PromoChars
               /\ ~parsed.thrown /\ parsed.value > maxNum
            THEN MaxNumFrom(catalog, k + 1, parsed.value)
            ELSE MaxNumFrom(catalog, k + 1, maxNum)

generatePromotionId(catalog) ==
    IdOfChars(PromoChars \o FillTo(DecimalOf(MaxNumFrom(catalog, 1, 0) + 1), 3))

\* the id the add pages would give the next promotion
GeneratePromotionId ==
    /\ pc["fg"] = "idle"
    /\ result' = [op |-> "generate", promotionId |-> generatePromotionId(promotions),
                  value |-> "true"]
    /\ pc' = [pc EXCEPT !["fg"] = "shown"]
    /\ UNCHANGED <<now, items, itemsFile, promotions, promotionsFile, orders, file,
                   ordersMutex, autoUpdateEnabled, pendingToShippedSeconds,
                   shippedToDeliveredSeconds, call, off, iter, sched, overlapped, shippedSince, scanLog, promotionsWritable>>

\* the add pages: the promotion entered gets the generated id and is added
AddGeneratedPromotion(promotion) ==
    /\ MaxNumFrom(promotions, 1, 0) < MaxCounter
    /\ AddPromotion([promotion EXCEPT !.promotionId = generatePromotionId(promotions)])

\* ---------------------------------------------------------------- pricing queries
\* the item page asks for the discount tag of one item
GetActiveDiscountForItem(itemId) ==
    /\ pc["fg"] = "idle"
    /\ result' = [op |-> "discount", itemId |-> itemId,
                  value |-> getActiveDiscountForItem(itemId, now)]
    /\ pc' = [pc EXCEPT !["fg"] = "shown"]
    /\ UNCHANGED <<now, items, itemsFile, promotions, promotionsFile, orders, file,
                   ordersMutex, autoUpdateEnabled, pendingToShippedSeconds,
                   shippedToDeliveredSeconds, call, off, iter, sched, overlapped, shippedSince, scanLog, promotionsWritable>>

\* the promotion page lists the full reductions in force
GetActiveFullReductions ==
    /\ pc["fg"] = "idle"
    /\ result' = [op |-> "reductions", value |-> getActiveFullReductions(now)]
    /\ pc' = [pc EXCEPT !["fg"] = "shown"]
    /\ UNCHANGED <<now, items, itemsFile, promotions, promotionsFile, orders, file,
                   ordersMutex, autoUpdateEnabled, pendingToShippedSeconds,
                   shippedToDeliveredSeconds, call, off, iter, sched, overlapped, shippedSince, scanLog, promotionsWritable>>

\* the pricing preview of a basket
CalculatePromotionResult(cartItems) ==
    /\ pc["fg"] = "idle"
    /\ result' = [op |-> "pricing", cartItems |-> cartItems,
                  value |-> calculatePromotionResult(cartItems, now)]
    /\ pc' = [pc EXCEPT !["fg"] = "shown"]
    /\ UNCHANGED <<now, items, itemsFile, promotions, promotionsFile, orders, file,
                   ordersMutex, autoUpdateEnabled, pendingToShippedSeconds,
                   shippedToDeliveredSeconds, call, off, iter, sched, overlapped, shippedSince, scanLog, promotionsWritable>>

\* ---------------------------------------------------------------- specifications
InitCommon ==
    /\ now = 0
    /\ orders = <<>>
    /\ file = <<>>
    /\ ordersMutex = "free"
    /\ autoUpdateEnabled = FALSE
    /\ pendingToShippedSeconds = DefaultPendingToShipped
    /\ shippedToDeliveredSeconds = DefaultShippedToDelivered
    /\ pc = [t \in Threads |-> IF t = "fg" THEN "idle" ELSE "off"]
    /\ call = NoCall
    /\ off = [t \in Threads |-> 0]
    /\ iter = [t \in Threads |-> 0]
    /\ sched = SchedIdle
    /\ result = NoResult
    /\ overlapped = FALSE
    /\ shippedSince = <<>>
    /\ scanLog = NoScan
    /\ promotionsFile = <<>>

\* the order book with its scheduler
Init ==
    /\ InitCommon
    /\ promotionsWritable = TRUE
    /\ items = InitialItems
    /\ itemsFile = [i \in ItemIds |-> InitialItems[i].stock]
    /\ promotions = <<>>

Next ==
    \/ Tick
    \/ \E u \in UserIds, b \in SmallBaskets, a \in Addresses : CallCreateOrder(u, b, a)
    \/ CreateOrderCtor
    \/ CreateOrderPush
    \/ CreateOrderReturn
    \/ \E id \in KnownOrderIds, s \in Statuses : UpdateOrderStatus(id, s)
    \/ UpdateSetStatus
    \/ UpdateSetTime
    \/ UpdateOrderStatusReturn
    \/ SaveToFileCall
    \/ SaveToFileReturn
    \/ \E d \in DurationChoices : EnableAutoUpdate(d[1], d[2])
    \/ \E d \in BOOLEAN : DisableAutoUpdate(d)
    \/ Join
    \/ SchedLoop
    \/ SchedWake
    \/ SchedLock
    \/ SchedCheck
    \/ SchedSetStatus
    \/ SchedSetTime
    \/ SchedUnlock
    \/ \E t \in Threads : SaveOpen(t)
    \/ \E t \in Threads : SaveHeader(t)
    \/ \E t \in Threads : SaveLock(t)
    \/ \E t \in Threads : SaveRow(t)
    \/ \E t \in Threads : SaveClose(t)

Spec == Init /\ [][Next]_vars

\* checkout on the foreground thread alone, over every basket, catalog and
\* loaded stock level; the scheduler is never enabled and the clock stands still
InitCheckout ==
    /\ InitCommon
    /\ promotionsWritable = TRUE
    /\ \E st \in [ItemIds -> InitialStocks] :
          /\ items = [i \in ItemIds |-> [price |-> ItemPrice(i), stock |-> st[i]]]
          /\ itemsFile = st
    /\ promotions \in PromotionCatalogs

NextCheckout ==
    \/ \E u \in UserIds, b \in Baskets, a \in Addresses : CallCreateOrder(u, b, a)
    \/ CreateOrderCtor
    \/ CreateOrderPush
    \/ CreateOrderReturn
    \/ SaveOpen("fg")
    \/ SaveHeader("fg")
    \/ SaveLock("fg")
    \/ SaveRow("fg")
    \/ SaveClose("fg")

SpecCheckout == InitCheckout /\ [][NextCheckout]_vars

\* the pricing queries over every sample catalog
InitPricing ==
    /\ InitCommon
    /\ promotionsWritable = TRUE
    /\ items = InitialItems
    /\ itemsFile = [i \in ItemIds |-> InitialItems[i].stock]
    /\ promotions \in SampleCatalogs

NextPricing ==
    \/ Tick
    \/ \E i \in ItemIds : GetActiveDiscountForItem(i)
    \/ GetActiveFullReductions
    \/ \E b \in Baskets : CalculatePromotionResult(b)
    \/ BackToMenu

SpecPricing == InitPricing /\ [][NextPricing]_vars

\* the administrator's catalog pages and restarts of the program
InitCatalog ==
    /\ InitCommon
    /\ promotionsWritable = TRUE
    /\ items = InitialItems
    /\ itemsFile = [i \in ItemIds |-> InitialItems[i].stock]
    /\ promotions = <<>>

NextCatalog ==
    \/ \E p \in NewPromotions : AddPromotion(p)
    \/ \E id \in PromotionIds : DeletePromotion(id)
    \/ \E p \in NewPromotions : UpdatePromotion(p)
    \/ \E id \in PromotionIds, r \in RateInputs : UpdateDiscountRate(id, r)
    \/ \E id \in PromotionIds, a \in BOOLEAN : SetPromotionActive(id, a)
    \/ PromotionsLoadFromFile
    \/ BackToMenu

SpecCatalog == InitCatalog /\ [][NextCatalog]_vars

\* the shipping addresses typed at checkout
AddressInputs == {"addr", "Room 1, Street 2"}

\* the order book on the foreground thread across restarts of the program
NextRestart ==
    \/ Tick
    \/ \E u \in UserIds, b \in SmallBaskets, a \in AddressInputs :
          CallCreateOrder(u, b, a)
    \/ CreateOrderCtor
    \/ CreateOrderPush
    \/ CreateOrderReturn
    \/ \E id \in KnownOrderIds, s \in Statuses : UpdateOrderStatus(id, s)
    \/ UpdateSetStatus
    \/ UpdateSetTime
    \/ UpdateOrderStatusReturn
    \/ SaveOpen("fg")
    \/ SaveHeader("fg")
    \/ SaveLock("fg")
    \/ SaveRow("fg")
    \/ SaveClose("fg")
    \/ OrdersLoadFromFile

SpecRestart == Init /\ [][NextRestart]_vars

\* the order book on the foreground thread with an orders CSV that may refuse
\* to open for writing
NextDurable ==
    \/ Tick
    \/ \E u \in UserIds, b \in SmallBaskets, a \in Addresses : CallCreateOrder(u, b, a)
    \/ CreateOrderCtor
    \/ CreateOrderPush
    \/ CreateOrderReturn
    \/ \E id \in KnownOrderIds, s \in Statuses : UpdateOrderStatus(id, s)
    \/ UpdateSetStatus
    \/ UpdateSetTime
    \/ UpdateOrderStatusReturn
    \/ SaveToFileCall
    \/ SaveToFileReturn
    \/ SaveOpen("fg")
    \/ SaveOpenFail("fg")
    \/ SaveHeader("fg")
    \/ SaveLock("fg")
    \/ SaveRow("fg")
    \/ SaveClose("fg")

SpecDurable == Init /\ [][NextDurable]_vars

\* the catalogs a promotions CSV from elsewhere loads as: distinct ids, at
\* most MaxPromotions of them
LoadedCatalogs ==
    {c \in UNION {[1..n -> {DiscountPromo(id, "A", 80, TRUE) : id \in LoadedIds}] :
                    n \in 0..MaxPromotions} :
        \A j, k \in 1..Len(c) : j # k => c[j].promotionId # c[k].promotionId}

\* the add and delete pages over a loaded catalog
InitGenerate ==
    /\ InitCommon
    /\ promotionsWritable = TRUE
    /\ items = InitialItems
    /\ itemsFile = [i \in ItemIds |-> InitialItems[i].stock]
    /\ promotions \in LoadedCatalogs

NextGenerate ==
    \/ GeneratePromotionId
    \/ \E p \in {DiscountPromo("", "A", 80, TRUE), FullReductionPromo("", 5, 1, TRUE)} :
          AddGeneratedPromotion(p)
    \/ \E id \in KnownIds : DeletePromotion(id)
    \/ BackToMenu

SpecGenerate == InitGenerate /\ [][NextGenerate]_vars

\* the clock while the scheduler polls: a scan and its save take less than a
\* clock second, so the second changes while the scheduler thread sleeps (or
\* is not running)
LiveTick ==
    /\ pc["sched"] \in {"off", "exited", "sleep"}
    /\ Tick

\* the order book with the scheduler left enabled and no call of
\* updateOrderStatus
NextLive ==
    \/ LiveTick
    \/ \E u \in UserIds, b \in SmallBaskets, a \in Addresses : CallCreateOrder(u, b, a)
    \/ CreateOrderCtor
    \/ CreateOrderPush
    \/ CreateOrderReturn
    \/ \E d \in DurationChoices : EnableAutoUpdate(d[1], d[2])
    \/ SchedLoop
    \/ SchedWake
    \/ SchedLock
    \/ SchedCheck
    \/ SchedSetStatus
    \/ SchedSetTime
    \/ SchedUnlock
    \/ \E t \in Threads : SaveOpen(t)
    \/ \E t \in Threads : SaveHeader(t)
    \/ \E t \in Threads : SaveLock(t)
    \/ \E t \in Threads : SaveRow(t)
    \/ \E t \in Threads : SaveClose(t)

\* both threads keep being scheduled and the clock keeps running; a thread
\* waiting for ordersMutex gets it when it is released again and again
LiveFairness ==
    /\ WF_vars(LiveTick)
    /\ WF_vars(SchedLoop)
    /\ WF_vars(SchedWake)
    /\ SF_vars(SchedLock)
    /\ WF_vars(SchedCheck)
    /\ WF_vars(SchedSetStatus)
    /\ WF_vars(SchedSetTime)
    /\ WF_vars(SchedUnlock)
    /\ WF_vars(CreateOrderCtor)
    /\ SF_vars(CreateOrderPush)
    /\ WF_vars(CreateOrderReturn)
    /\ \A t \in Threads :
          /\ WF_vars(SaveOpen(t))
          /\ WF_vars(SaveHeader(t))
          /\ SF_vars(SaveLock(t))
          /\ WF_vars(SaveRow(t))
          /\ WF_vars(SaveClose(t))

SpecLive == Init /\ [][NextLive]_vars /\ LiveFairness

\* an order placed n seconds before the program was started, as loadFromFile
\* builds it from its line of the orders CSV
LoadedOrder(n) ==
    [orderId |-> generateOrderId("u1", 0 - n),
     userId |-> "u1",
     items |-> <<[itemId |-> "A", itemName |-> ItemName("A"),
                  price |-> ItemPrice("A"), quantity |-> 1]>>,
     orderTime |-> 0 - n,
     totalAmount |-> ItemPrice("A"),
     shippingAddress |-> "addr",
     status |-> "PENDING",
     statusChangeTime |-> 0 - n]

\* the orders CSV the program finds when it starts
LoadedOrders == <<LoadedOrder(2), LoadedOrder(1)>>

\* the program started on an orders CSV with two Pending orders
InitScan ==
    /\ now = 0
    /\ orders = LoadedOrders
    /\ file = <<Header>> \o [k \in 1..Len(LoadedOrders) |-> Row(LoadedOrders[k])]
    /\ ordersMutex = "free"
    /\ autoUpdateEnabled = FALSE
    /\ pendingToShippedSeconds = DefaultPendingToShipped
    /\ shippedToDeliveredSeconds = DefaultShippedToDelivered
    /\ pc = [t \in Threads |-> IF t = "fg" THEN "idle" ELSE "off"]
    /\ call = NoCall
    /\ off = [t \in Threads |-> 0]
    /\ iter = [t \in Threads |-> 0]
    /\ sched = SchedIdle
    /\ result = NoResult
    /\ overlapped = FALSE
    /\ shippedSince = [k \in 1..Len(LoadedOrders) |-> -1]
    /\ scanLog = NoScan
    /\ promotionsWritable = TRUE
    /\ promotionsFile = <<>>
    /\ items = InitialItems
    /\ itemsFile = [i \in ItemIds |-> InitialItems[i].stock]
    /\ promotions = <<>>

\* the scheduler over the loaded orders, with the operator setting statuses
NextScan ==
    \/ Tick
    \/ \E id \in KnownOrderIds, s \in Statuses : UpdateOrderStatus(id, s)
    \/ UpdateSetStatus
    \/ UpdateSetTime
    \/ UpdateOrderStatusReturn
    \/ \E d \in DurationChoices : EnableAutoUpdate(d[1], d[2])
    \/ \E d \in BOOLEAN : DisableAutoUpdate(d)
    \/ Join
    \/ SchedLoop
    \/ SchedWake
    \/ SchedLock
    \/ SchedCheck
    \/ SchedSetStatus
    \/ SchedSetTime
    \/ SchedUnlock
    \/ \E t \in Threads : SaveOpen(t)
    \/ \E t \in Threads : SaveHeader(t)
    \/ \E t \in Threads : SaveLock(t)
    \/ \E t \in Threads : SaveRow(t)
    \/ \E t \in Threads : SaveClose(t)

SpecScan == InitScan /\ [][NextScan]_vars

\* the catalog pages while the promotions CSV cannot be opened for writing
\* (its directory is missing or the file is read-only)
InitUnwritable ==
    /\ InitCommon
    /\ promotionsWritable = FALSE
    /\ items = InitialItems
    /\ itemsFile = [i \in ItemIds |-> InitialItems[i].stock]
    /\ promotions = <<>>

NextUnwritable ==
    \/ \E p \in NewPromotions : AddPromotion(p)
    \/ \E id \in PromotionIds : DeletePromotion(id)
    \/ \E p \in NewPromotions : UpdatePromotion(p)
    \/ \E id \in PromotionIds, r \in RateInputs : UpdateDiscountRate(id, r)
    \/ \E id \in PromotionIds, a \in BOOLEAN : SetPromotionActive(id, a)
    \/ BackToMenu

SpecUnwritable == InitUnwritable /\ [][NextUnwritable]_vars

\* a catalog with one promotion of each kind, its parameters in range
ParamCatalogs ==
    {<<DiscountPromo("PROMO001", "A", 80, TRUE),
       FullReductionPromo("PROMO002", 5, 1, TRUE)>>}

\* the edit page of the catalog: the four parameter updates
InitParams ==
    /\ InitCommon
    /\ promotionsWritable = TRUE
    /\ items = InitialItems
    /\ itemsFile = [i \in ItemIds |-> InitialItems[i].stock]
    /\ promotions \in ParamCatalogs

NextParams ==
    \/ \E id \in PromotionIds, r \in RateInputs : UpdateDiscountRate(id, r)
    \/ \E id \in PromotionIds, a \in AmountInputs : UpdateFullReductionThreshold(id, a)
    \/ \E id \in PromotionIds, a \in AmountInputs : UpdateFullReductionAmount(id, a)
    \/ \E id \in PromotionIds, w \in TimeInputs : UpdatePromotionTime(id, w[1], w[2])
    \/ BackToMenu

SpecParams == InitParams /\ [][NextParams]_vars

\* the prices and stock levels typed into the item edit page
PriceInputs == {4}
StockInputs == {2}

\* the item edit page: item->setPrice(newPrice), then ItemManager::saveToFile
SetItemPrice(itemId, newPrice) ==
    /\ pc["fg"] = "idle"
    /\ items' = [items EXCEPT ![itemId].price = newPrice]
    /\ UNCHANGED <<now, itemsFile, promotions, promotionsFile, orders, file, ordersMutex,
                   autoUpdateEnabled, pendingToShippedSeconds,
                   shippedToDeliveredSeconds, pc, call, off, iter, sched, result,
                   overlapped, shippedSince, scanLog, promotionsWritable>>

\* the item edit page: item->setStock(newStock), then ItemManager::saveToFile
SetItemStock(itemId, newStock) ==
    /\ pc["fg"] = "idle"
    /\ items' = [items EXCEPT ![itemId].stock = newStock]
    /\ itemsFile' = [itemsFile EXCEPT ![itemId] = newStock]
    /\ UNCHANGED <<now, promotions, promotionsFile, orders, file, ordersMutex,
                   autoUpdateEnabled, pendingToShippedSeconds,
                   shippedToDeliveredSeconds, pc, call, off, iter, sched, result,
                   overlapped, shippedSince, scanLog, promotionsWritable>>

\* the order book with its scheduler next to the item and promotion pages
NextFrozen ==
    \/ LiveTick
    \/ \E u \in UserIds, b \in SmallBaskets, a \in Addresses : CallCreateOrder(u, b, a)
    \/ CreateOrderCtor
    \/ CreateOrderPush
    \/ CreateOrderReturn
    \/ \E id \in KnownOrderIds, s \in {"PENDING", "DELIVERED"} : UpdateOrderStatus(id, s)
    \/ UpdateSetStatus
    \/ UpdateSetTime
    \/ UpdateOrderStatusReturn
    \/ EnableAutoUpdate(1, 1)
    \/ SchedLoop
    \/ SchedWake
    \/ SchedLock
    \/ SchedCheck
    \/ SchedSetStatus
    \/ SchedSetTime
    \/ SchedUnlock
    \/ \E t \in Threads : SaveOpen(t)
    \/ \E t \in Threads : SaveHeader(t)
    \/ \E t \in Threads : SaveLock(t)
    \/ \E t \in Threads : SaveRow(t)
    \/ \E t \in Threads : SaveClose(t)
    \/ \E p \in PriceInputs : SetItemPrice("A", p)
    \/ \E n \in StockInputs : SetItemStock("A", n)
    \/ AddPromotion(DiscountPromo("PROMO001", "A", 80, TRUE))
    \/ UpdateDiscountRate("PROMO001", 50)
    \/ SetPromotionActive("PROMO001", FALSE)
    \/ DeletePromotion("PROMO001")
    \/ BackToMenu

SpecFrozen == Init /\ [][NextFrozen]_vars

\* promotions whose parameters pass the checks of the add and edit pages
StackablePromotions ==
    {DiscountPromo("", "A", 80, TRUE),
     DiscountPromo("", "-1", 50, TRUE),
     FullReductionPromo("", 3, 2, TRUE),
     FullReductionPromo("", 5, 4, TRUE),
     FullReductionPromo("", 8, 2, TRUE)}

StackedCatalogs ==
    {[k \in 1..Len(c) |-> [c[k] EXCEPT !.promotionId = PromotionIdOf(k)]] :
        c \in UNION {[1..n -> StackablePromotions] : n \in 0..MaxPromotions}}

\* the pricing preview over catalogs in which several full reductions apply
InitStacked ==
    /\ InitCommon
    /\ promotionsWritable = TRUE
    /\ items = InitialItems
    /\ itemsFile = [i \in ItemIds |-> InitialItems[i].stock]
    /\ promotions \in StackedCatalogs

NextStacked ==
    \/ Tick
    \/ \E b \in Baskets : CalculatePromotionResult(b)
    \/ BackToMenu

SpecStacked == InitStacked /\ [][NextStacked]_vars

\* one customer checking out twice, and the administrator's status page;
\* the scheduler is never enabled
NextTwice ==
    \/ Tick
    \/ \E u \in UserIds, b \in SmallBaskets, a \in Addresses :
          ConfirmOrder(MaxOrders + 1, u, b, a)
    \/ CreateOrderCtor
    \/ CreateOrderPush
    \/ CreateOrderReturn
    \/ \E id \in KnownOrderIds, s \in Statuses : UpdateOrderStatus(id, s)
    \/ UpdateSetStatus
    \/ UpdateSetTime
    \/ UpdateOrderStatusReturn
    \/ SaveOpen("fg")
    \/ SaveHeader("fg")
    \/ SaveLock("fg")
    \/ SaveRow("fg")
    \/ SaveClose("fg")

SpecTwice == Init /\ [][NextTwice]_vars

\* ---------------------------------------------------------------- properties
CreateNull == [op |-> "create", value |-> "null"]

\* some line of the basket of the call in progress asks for more than the stock
\* its item has when the constructor starts
SomeLineExceedsStock ==
    \E k \in 1..Len(call.cartItems) :
        call.cartItems[k].quantity > items[call.cartItems[k].item].stock

RECURSIVE QuantityOf(_, _)
\* the sum of the quantities of the basket lines that reference itemId
QuantityOf(cartItems, itemId) ==
    IF cartItems = <<>> THEN 0
    ELSE (IF Head(cartItems).item = itemId THEN Head(cartItems).quantity ELSE 0)
         + QuantityOf(Tail(cartItems), itemId)

RECURSIVE SumOfLines(_)
\* the sum over an order's lines of unit price at purchase times quantity
SumOfLines(orderItems) ==
    IF orderItems = <<>> THEN 0
    ELSE Head(orderItems).price * Head(orderItems).quantity + SumOfLines(Tail(orderItems))

\* the persisted collection holds exactly one complete record per in-memory
\* order, in order, each with the order's current status and statusChangeTime
FileMatchesMemory ==
    \/ file = <<>> /\ orders = <<>>
    \/ file = <<Header>> \o [k \in 1..Len(orders) |-> Row(orders[k])]

\* no call, scan or save is in progress
Quiescent ==
    /\ pc["fg"] \in {"idle", "destroyed"}
    /\ pc["sched"] \in {"off", "exited", "loop", "sleep", "scan_lock"}

\* the step is one of the scheduler thread
SchedStepped == pc'["sched"] # pc["sched"] \/ iter'["sched"] # iter["sched"]

\* C1: when some basket line exceeds its item's stock, createOrder fails and
\* the stock of every item is the same after the call as before it.
C1_StockUnchangedOnFailure ==
    [][(pc["fg"] = "create_ctor" /\ SomeLineExceedsStock)
        => (result' = CreateNull
            /\ \A i \in ItemIds : items'[i].stock = items[i].stock)]_vars

\* C2: a createOrder that fails for insufficient stock returns no order and
\* has returned with the in-memory order collection and the persisted order
\* collection exactly as they were; a basket with a line above its item's
\* stock always fails.
C2_NoOrderOnFailure ==
    [][(pc["fg"] = "create_ctor")
        => /\ SomeLineExceedsStock => result' = CreateNull
           /\ result' = CreateNull
                => (pc'["fg"] = "idle" /\ orders' = orders /\ file' = file)]_vars

C2_Witness ==
    /\ result = CreateNull
    /\ pc["fg"] = "idle"
    /\ orders = <<>>
    /\ file = <<>>

\* C3: an order's status never moves from Shipped back to Pending, never
\* leaves Delivered.
C3_StatusOnlyForward ==
    [][\A k \in 1..Len(orders) :
        /\ orders[k].status = "DELIVERED" => orders'[k].status = "DELIVERED"
        /\ orders[k].status = "SHIPPED" => orders'[k].status # "PENDING"]_vars

\* C4: whenever ordersMutex is free, the in-memory collection equals the
\* persisted one (mutation and persistence are one critical section).
C4_MutationAndSaveAtomic == ordersMutex = "free" => FileMatchesMemory

\* C5: status writes are serialized with the scan: when the scan is about to
\* write the transition it decided on, the order still has the status and
\* statusChangeTime that the scan read.
C5_ScanWriteNotStale ==
    pc["sched"] = "scan_status"
        => ScanDecision(orders[iter["sched"]], sched.currentTime) = sched.decision

\* C6: once every updateOrderStatus call, scan and save has completed, the
\* persisted collection holds exactly one complete record per in-memory order
\* with that order's final status and statusChangeTime.
C6_PersistedMatchesWhenQuiescent == Quiescent => FileMatchesMemory

C6_Witness ==
    /\ Quiescent
    /\ overlapped
    /\ result = [op |-> "update", value |-> "true"]
    /\ FileMatchesMemory
    /\ \E k \in 1..Len(orders) : orders[k].status = "DELIVERED"

C8_NoSchedulerAfterDisable ==
    (~autoUpdateEnabled /\ pc["fg"] # "join") => pc["sched"] = "off"

C8_Witness ==
    /\ result = [op |-> "disable", value |-> "joined"]
    /\ pc["fg"] = "destroyed"
    /\ pc["sched"] = "off"
    /\ \E k \in 1..Len(orders) : orders[k].status = "SHIPPED"

\* C9: a successful createOrder lowers each item's stock by exactly the sum
\* of the quantities of the basket lines that reference it, and stock changes
\* at no other step.
C9_StockDecrementedByPurchase ==
    [][/\ (pc["fg"] = "create_ctor" /\ pc'["fg"] = "create_push") =>
            \A i \in ItemIds :
                items'[i].stock = items[i].stock - QuantityOf(call.cartItems, i)
       /\ pc["fg"] # "create_ctor" => items' = items]_vars

C9_Witness ==
    /\ result = [op |-> "create", value |-> "order"]
    /\ \E k \in 1..Len(orders) :
          /\ Len(orders[k].items) = 2
          /\ orders[k].items[1].itemId = orders[k].items[2].itemId
          /\ items[orders[k].items[1].itemId].stock = 0
          /\ \E i \in ItemIds : items[i].stock = 3

PersistedStatusIs(k, status) ==
    /\ Len(file) >= k + 1
    /\ file[k + 1].kind = "row"
    /\ file[k + 1].orderId = orders[k].orderId
    /\ file[k + 1].status = getStatusString(status)

\* C11: updateOrderStatus with an id that is not in the collection returns
\* false and changes no order and does not rewrite the persisted collection;
\* with an id that is present it sets the order's status to newStatus and, at
\* the moment it returns true, the persisted record of that order carries
\* newStatus.
C11_UpdateFoundOrNothing ==
    [][/\ (result' # result /\ result' = [op |-> "update", value |-> "false"])
            => (pc["fg"] = "idle" /\ orders' = orders /\ file' = file /\ pc' = pc)
       /\ (pc["fg"] = "update_status" /\ pc'["fg"] = "update_time")
            => orders'[call.target].status = call.newStatus
       /\ (pc["fg"] = "update_ret" /\ pc'["fg"] = "idle")
            => (result' = [op |-> "update", value |-> "true"]
                /\ PersistedStatusIs(call.target, call.newStatus))]_vars

\* C12: when the orders CSV could not be written by the saveToFile of a
\* createOrder or updateOrderStatus call, the call reports failure: createOrder
\* returns no order and updateOrderStatus returns false.
C12_FailedWriteSurfaced ==
    [][/\ (pc["fg"] = "create_ret" /\ pc'["fg"] = "idle" /\ call.saved = "false")
            => result' = CreateNull
       /\ (pc["fg"] = "update_ret" /\ pc'["fg"] = "idle" /\ call.saved = "false")
            => result' = [op |-> "update", value |-> "false"]]_vars

DiscountCandidates(itemId, currentTime) ==
    {k \in 1..Len(promotions) :
        /\ promotions[k].promotionType = "DISCOUNT"
        /\ promotions[k].isActive
        /\ promotions[k].startTime <= currentTime
        /\ currentTime <= promotions[k].endTime
        /\ promotions[k].targetItemId \in {"-1", itemId}}

\* k is the first candidate with the lowest rate, or 0 when there is none
IsBestCandidate(k, candidates) ==
    IF candidates = {} THEN k = 0
    ELSE /\ k \in candidates
         /\ \A j \in candidates :
               /\ promotions[k].discountRate <= promotions[j].discountRate
               /\ promotions[j].discountRate = promotions[k].discountRate => k <= j

ReductionsReached(base, currentTime) ==
    {k \in 1..Len(promotions) :
        /\ promotions[k].promotionType = "FULL_REDUCTION"
        /\ promotions[k].isActive
        /\ promotions[k].startTime <= currentTime
        /\ currentTime <= promotions[k].endTime
        /\ promotions[k].thresholdAmount * Scale <= base}

RECURSIVE SumOfReductions(_)
\* the sum of reductionAmount over a set of catalog positions, in hundredths
SumOfReductions(ks) ==
    IF ks = {} THEN 0
    ELSE LET k == CHOOSE x \in ks : TRUE
         IN promotions[k].reductionAmount * Scale + SumOfReductions(ks \ {k})

\* the step is a pricing of a basket
PricingStep == result' # result /\ result'.op = "pricing"

\* C15: totalReduction is the sum of reductionAmount over every valid full
\* reduction whose threshold is at most afterDiscountTotal, each tested against
\* that same base, and finalTotal = afterDiscountTotal - totalReduction.
C15_ReductionsStackOnOneBase ==
    [][PricingStep =>
        LET v == result'.value
        IN /\ v.totalReduction
                = SumOfReductions(ReductionsReached(v.afterDiscountTotal, now))
           /\ v.finalTotal = v.afterDiscountTotal - v.totalReduction]_vars

\* thresholds 5 and 8 both reached by a discounted total of exactly 8, which
\* a running total would not reach twice
C15_Witness ==
    /\ result.op = "pricing"
    /\ result.value.afterDiscountTotal = 8 * Scale
    /\ result.value.totalReduction = 3 * Scale
    /\ result.value.finalTotal = 5 * Scale
    /\ Len(promotions) = 2
    /\ promotions[1].thresholdAmount = 5
    /\ promotions[2].thresholdAmount = 8

\* the rate applied to a line: that of the best candidate, or 1 (Scale) without one
LineRate(itemId, currentTime) ==
    LET candidates == DiscountCandidates(itemId, currentTime)
    IN IF candidates = {} THEN Scale
       ELSE LET k == CHOOSE x \in 1..Len(promotions) : IsBestCandidate(x, candidates)
            IN promotions[k].discountRate

RECURSIVE SumOfDiscountedLines(_, _)
\* the sum over the basket lines of unitPrice x rate x quantity, in hundredths
SumOfDiscountedLines(cartItems, currentTime) ==
    IF cartItems = <<>> THEN 0
    ELSE LET line == Head(cartItems)
         IN ItemPrice(line.item) * LineRate(line.item, currentTime) * line.quantity
            + SumOfDiscountedLines(Tail(cartItems), currentTime)

\* the lines of the basket that have a discount, in basket order
DiscountedLines(cartItems, currentTime) ==
    SelectSeq(cartItems, LAMBDA line : DiscountCandidates(line.item, currentTime) # {})

\* (itemName, lineOriginal - lineDiscounted) of one discounted line
ExpectedItemDiscount(line, currentTime) ==
    <<ItemName(line.item),
      ItemPrice(line.item) * line.quantity * (Scale - LineRate(line.item, currentTime))>>

\* C16: afterDiscountTotal is the sum over the basket lines of unitPrice x
\* rate x quantity, with the rate of the line's best active discount or 1
\* without one; itemDiscounts holds (itemName, lineOriginal - lineDiscounted)
\* for exactly the discounted lines; totalSavings = originalTotal - finalTotal.
C16_DiscountStage ==
    [][PricingStep =>
        LET v == result'.value
            lines == DiscountedLines(result'.cartItems, now)
        IN /\ v.afterDiscountTotal = SumOfDiscountedLines(result'.cartItems, now)
           /\ v.itemDiscounts
                = [k \in 1..Len(lines) |-> ExpectedItemDiscount(lines[k], now)]
           /\ v.totalSavings = v.originalTotal - v.finalTotal]_vars

\* one unit of A at 3 with a 0.8 discount next to an undiscounted line:
\* itemDiscounts [(A, 0.6)]
C16_Witness ==
    /\ result.op = "pricing"
    /\ Len(result.cartItems) = 2
    /\ result.value.itemDiscounts = <<<<"A", 60>>>>
    /\ result.value.afterDiscountTotal = 240 + 5 * Scale
    /\ result.value.finalTotal = result.value.afterDiscountTotal
    /\ result.value.totalSavings = 60

\* the entries of a given kind in appliedPromotions, in order
EntriesOfKind(appliedPromotions, kind) ==
    SelectSeq(appliedPromotions, LAMBDA e : e[1] = kind)

\* C17: appliedPromotions holds one entry per discounted basket line, in
\* basket order, followed by one entry per applied full reduction in
\* ascending thresholdAmount order; no reduction entry precedes a discount
\* entry; itemDiscounts is in basket order.
C17_AppliedPromotionsOrdered ==
    [][PricingStep =>
        LET v == result'.value
            lines == DiscountedLines(result'.cartItems, now)
            discounts == EntriesOfKind(v.appliedPromotions, "discount")
            reductions == EntriesOfKind(v.appliedPromotions, "reduction")
        IN /\ v.appliedPromotions = discounts \o reductions
           /\ Len(discounts) = Len(lines)
           /\ \A k \in 1..Len(lines) :
                 /\ discounts[k][2] = ItemName(lines[k].item)
                 /\ discounts[k][3] = LineRate(lines[k].item, now)
                 /\ v.itemDiscounts[k][1] = ItemName(lines[k].item)
           /\ Len(reductions)
                = Cardinality(ReductionsReached(v.afterDiscountTotal, now))
           /\ \A k \in 1..Len(reductions) :
                 \E j \in ReductionsReached(v.afterDiscountTotal, now) :
                    /\ reductions[k][2] = promotions[j].thresholdAmount
                    /\ reductions[k][3] = promotions[j].reductionAmount
           /\ \A k \in 1..(Len(reductions) - 1) :
                 reductions[k][2] <= reductions[k + 1][2]]_vars

\* a catalog that stores the higher threshold first, priced with both
\* reductions applied
C17_Witness ==
    /\ result.op = "pricing"
    /\ Len(promotions) = 2
    /\ promotions[1].thresholdAmount = 8
    /\ promotions[2].thresholdAmount = 5
    /\ result.value.appliedPromotions = <<<<"reduction", 5, 1>>, <<"reduction", 8, 2>>>>

\* C18: loading the promotions CSV that saveToFile wrote for the current
\* catalog does not fail and yields the same promotions in the same order with
\* the same fields.
C18_PromotionRoundTrip ==
    [][(result' # result /\ result'.op = "load"
        /\ promotionsFile = PromotionsFileOf(promotions))
        => (result'.value = "true" /\ promotions' = promotions)]_vars

\* the ids in a catalog
IdsIn(catalog) == {catalog[k].promotionId : k \in 1..Len(catalog)}

\* no two positions of the catalog hold the same id
IdsDistinct(catalog) == Cardinality(IdsIn(catalog)) = Len(catalog)

\* C20: addPromotion with an id already in the catalog returns false and
\* leaves the in-memory catalog and the promotions CSV unchanged; the ids in
\* the catalog are pairwise distinct in every state reached through
\* addPromotion, deletePromotion and the update operations.
C20_PromotionIdsUnique ==
    [][/\ IdsDistinct(promotions) /\ IdsDistinct(promotions')
       /\ (result' # result /\ result'.op = "add"
           /\ result'.promotionId \in IdsIn(promotions))
            => /\ result'.value = "false"
               /\ promotions' = promotions
               /\ promotionsFile' = promotionsFile]_vars

C20_Witness ==
    /\ result = [op |-> "add", promotionId |-> "PROMO002", value |-> "false"]
    /\ Len(promotions) = 2
    /\ promotions[1].promotionId = "PROMO002"
    /\ promotions[2].promotionId = "PROMO001"
    /\ promotions[1].promotionType # promotions[2].promotionType
    /\ promotionsFile = PromotionsFileOf(promotions)

\* C19: loading the orders CSV that saveToFile wrote for the current
\* collection yields the same orders in the same order, each with the same
\* id, userId, line items, orderTime, totalAmount, shippingAddress, status
\* and statusChangeTime.
C19_OrderRoundTrip ==
    [][(pc["fg"] = "idle" /\ result' = [op |-> "load", value |-> "true"]
        /\ result' # result /\ FileMatchesMemory)
        => orders' = orders]_vars


\* the characters after "PROMO" when the id is "PROMO" followed by digits only
\* (at least one), else the empty sequence
DigitSuffix(id) ==
    LET chars == IdChars(id)
    IN IF Len(chars) > 5 /\ SubSeq(chars, 1, 5) = PromoChars
          /\ \A k \in 6..Len(chars) : IsDigit(chars[k])
       THEN SubSeq(chars, 6, Len(chars)) ELSE <<>>

RECURSIVE ValueOfDigits(_)
ValueOfDigits(ds) ==
    IF ds = <<>> THEN 0
    ELSE 10 * ValueOfDigits(SubSeq(ds, 1, Len(ds) - 1)) + DigitValue(ds[Len(ds)])

\* the numeric suffixes of the ids of the form PROMO<digits> in a catalog
NumericSuffixes(catalog) ==
    {ValueOfDigits(DigitSuffix(catalog[k].promotionId)) :
        k \in {j \in 1..Len(catalog) : DigitSuffix(catalog[j].promotionId) # <<>>}}

NextPromotionNumber(catalog) ==
    IF NumericSuffixes(catalog) = {} THEN 1
    ELSE 1 + CHOOSE m \in NumericSuffixes(catalog) :
                 \A n \in NumericSuffixes(catalog) : n <= m

\* id is "PROMO" followed by n in decimal, zero-padded to at least 3 digits
IsPaddedPromoId(id, n) ==
    LET ds == DigitSuffix(id)
    IN /\ Len(ds) >= 3
       /\ ValueOfDigits(ds) = n
       /\ (Len(ds) > 3 => ds[1] # "0")

\* C21: generatePromotionId returns "PROMO" followed by 1 + the largest
\* numeric suffix among the existing ids of the form PROMO<digits> (1 when
\* there is none), zero-padded to at least 3 digits, and the id returned is
\* not the id of a promotion already in the catalog.
C21_GeneratedIdIsNextAndFresh ==
    [][(result' # result /\ result'.op = "generate")
        => /\ IsPaddedPromoId(result'.promotionId, NextPromotionNumber(promotions))
           /\ result'.promotionId \notin IdsIn(promotions)]_vars


\* the scheduler's step that stores a new status in an order
SchedTransition(k) ==
    /\ pc["sched"] = "scan_status"
    /\ pc'["sched"] = "scan_time"
    /\ iter["sched"] = k
    /\ orders'[k].status # orders[k].status

\* C22: a scheduler scan advances an order by one status step only, and it
\* makes an order Delivered only if the order was Shipped and at least
\* shippedToDeliveredSeconds have elapsed since it became Shipped, however
\* long it had been Pending.
C22_OneStepPerScan ==
    [][\A k \in 1..Len(orders) :
        SchedTransition(k) =>
            /\ orders'[k].status = "SHIPPED" => orders[k].status = "PENDING"
            /\ orders'[k].status = "DELIVERED" =>
                  /\ orders[k].status = "SHIPPED"
                  /\ shippedSince[k] >= 0
                  /\ now - shippedSince[k] >= shippedToDeliveredSeconds]_vars

\* the scheduler polls and the k-th order, in the given status, has a clock
\* second ahead at which the given duration has elapsed
AwaitsScan(k, status, seconds) ==
    /\ k <= Len(orders)
    /\ autoUpdateEnabled
    /\ orders[k].status = status
    /\ now < MaxTime
    /\ orders[k].statusChangeTime + seconds <= MaxTime

\* the k-th order has left the status
NoLonger(k, status) == k <= Len(orders) /\ orders[k].status # status

\* C23: while the scheduler is enabled and polls, the clock runs and
\* updateOrderStatus is not called on the order, a Pending order becomes
\* Shipped once pendingToShippedSeconds have elapsed since its last status
\* change, and a Shipped order becomes Delivered once
\* shippedToDeliveredSeconds have elapsed.
C23_SchedulerLiveness ==
    \A k \in 1..MaxOrders :
        /\ AwaitsScan(k, "PENDING", pendingToShippedSeconds)
              ~> NoLonger(k, "PENDING")
        /\ AwaitsScan(k, "SHIPPED", shippedToDeliveredSeconds)
              ~> NoLonger(k, "SHIPPED")

C23_Witness ==
    /\ Len(orders) >= 1
    /\ orders[1].status = "DELIVERED"
    /\ pc["sched"] = "scan_time"

\* the scheduler thread comes back to the head of its loop: the scan and its
\* save are over
ScanEnds == pc["sched"] \in {"scan_check", "save_row"} /\ pc'["sched"] = "loop"

\* C24: a scheduler scan rewrites the orders CSV exactly once when it moved
\* at least one order on, however many it moved, and does not write when it
\* moved none.
C24_OneWritePerScan ==
    [][ScanEnds => scanLog.writes = (IF scanLog.moved >= 1 THEN 1 ELSE 0)]_vars

C24_Witness ==
    /\ pc["sched"] = "loop"
    /\ scanLog = [moved |-> 2, writes |-> 1]
    /\ orders[1].status = "SHIPPED"
    /\ orders[2].status = "SHIPPED"


\* the step is the catalog operation op, entered from the menu
CatalogStep(op) == pc["fg"] = "idle" /\ pc'["fg"] = "shown" /\ call'.op = op

\* the position of the promotion with the id in the catalog before the step
\* (0 when there is none)
PositionOf(promotionId) ==
    IF promotionId \in IdsIn(promotions)
    THEN CHOOSE k \in 1..Len(promotions) :
            /\ promotions[k].promotionId = promotionId
            /\ \A j \in 1..(k - 1) : promotions[j].promotionId # promotionId
    ELSE 0

\* C25: when the promotions CSV cannot be written, addPromotion,
\* deletePromotion, setPromotionActive and the update operations return false
\* while the in-memory catalog keeps the mutation: the added promotion is
\* present, the deleted one is gone, the field has its new value.
C25_FailedPersistNotRolledBack ==
    [][~promotionsWritable =>
        /\ (CatalogStep("add") /\ PositionOf(call'.promotion.promotionId) = 0)
              => /\ result'.value = "false"
                 /\ promotions' = Append(promotions, call'.promotion)
        /\ (CatalogStep("delete") /\ PositionOf(call'.promotionId) # 0)
              => /\ result'.value = "false"
                 /\ call'.promotionId \notin IdsIn(promotions')
                 /\ Len(promotions') = Len(promotions) - 1
        /\ (CatalogStep("active") /\ PositionOf(call'.promotionId) # 0)
              => /\ result'.value = "false"
                 /\ promotions'[PositionOf(call'.promotionId)].isActive = call'.isActive
        /\ (CatalogStep("update") /\ PositionOf(call'.promotion.promotionId) # 0)
              => /\ result'.value = "false"
                 /\ promotions'[PositionOf(call'.promotion.promotionId)] = call'.promotion
        /\ (/\ CatalogStep("rate")
            /\ PositionOf(call'.promotionId) # 0
            /\ promotions[PositionOf(call'.promotionId)].promotionType = "DISCOUNT"
            /\ call'.newRate > 0
            /\ call'.newRate < Scale)
              => /\ result'.value = "false"
                 /\ promotions'[PositionOf(call'.promotionId)].discountRate = call'.newRate
       ]_vars

C25_Witness ==
    /\ ~promotionsWritable
    /\ result = [op |-> "rate", promotionId |-> "PROMO002", value |-> "false"]
    /\ call = [op |-> "rate", promotionId |-> "PROMO002", newRate |-> 50]
    /\ Len(promotions) = 1
    /\ promotions[1].promotionId = "PROMO002"
    /\ promotions[1].discountRate = 50
    /\ ~promotions[1].isActive
    /\ promotionsFile = <<>>

\* the parameters of a promotion are in range
ValidParameters(p) ==
    /\ p.promotionType = "DISCOUNT" => (0 < p.discountRate /\ p.discountRate < Scale)
    /\ p.promotionType = "FULL_REDUCTION" =>
          (0 < p.reductionAmount /\ p.reductionAmount < p.thresholdAmount)
    /\ p.startTime < p.endTime

AllValid(catalog) == \A k \in 1..Len(catalog) : ValidParameters(catalog[k])

\* the call of the step targets an unknown id or a promotion of the other
\* kind, or its value would take a parameter out of range
OutOfRangeCall ==
    LET k == PositionOf(call'.promotionId)
    IN \/ k = 0
       \/ /\ call'.op = "rate"
          /\ \/ promotions[k].promotionType # "DISCOUNT"
             \/ ~(0 < call'.newRate /\ call'.newRate < Scale)
       \/ /\ call'.op = "threshold"
          /\ \/ promotions[k].promotionType # "FULL_REDUCTION"
             \/ ~(0 < call'.newThreshold)
             \/ ~(promotions[k].reductionAmount < call'.newThreshold)
       \/ /\ call'.op = "reduction"
          /\ \/ promotions[k].promotionType # "FULL_REDUCTION"
             \/ ~(0 < call'.newReduction)
             \/ ~(call'.newReduction < promotions[k].thresholdAmount)
       \/ /\ call'.op = "time"
          /\ ~(call'.newStartTime < call'.newEndTime)

\* C26: from a catalog whose parameters are in range (0 < discountRate < 1,
\* 0 < reductionAmount < thresholdAmount, startTime < endTime) they stay in
\* range under updateDiscountRate, updateFullReductionThreshold,
\* updateFullReductionAmount and updatePromotionTime; a call that would take
\* one out of range, or that targets a promotion of the other kind or an
\* unknown id, returns false and leaves the catalog unchanged.
C26_ParametersStayInRange ==
    [][/\ AllValid(promotions) /\ AllValid(promotions')
       /\ ((\E op \in {"rate", "threshold", "reduction", "time"} : CatalogStep(op))
           /\ OutOfRangeCall)
            => (result'.value = "false" /\ promotions' = promotions)]_vars

C26_Witness ==
    /\ result = [op |-> "threshold", promotionId |-> "PROMO002", value |-> "false"]
    /\ call = [op |-> "threshold", promotionId |-> "PROMO002", newThreshold |-> 3]
    /\ promotions[2].reductionAmount = 3
    /\ promotions[2].thresholdAmount = 5
    /\ promotions[1].discountRate = 50
    /\ promotions[1].startTime = 1
    /\ promotions[1].endTime = 2

\* a scheduler loop is running on the scheduler thread
LoopRunning == pc["sched"] \notin {"off", "exited"}

\* the step is a call of enableAutoUpdate / disableAutoUpdate from the menu
EnableCalled == pc["fg"] = "idle" /\ result' # result /\ result'.op = "enable"

DisableCalled ==
    /\ pc["fg"] = "idle"
    /\ \/ result' # result /\ result'.op = "disable"
       \/ call' # call /\ call'.op = "disable"

\* C27: at most one scheduler loop runs at any time: enableAutoUpdate starts
\* a loop only when none is running; while the scheduler is enabled it starts
\* no second loop and leaves pendingToShippedSeconds and
\* shippedToDeliveredSeconds unchanged; disableAutoUpdate while it is not
\* enabled does nothing.
C27_ExactlyOneScheduler ==
    [][/\ (EnableCalled /\ autoUpdateEnabled)
            => /\ pc'["sched"] = pc["sched"]
               /\ UNCHANGED <<sched, autoUpdateEnabled, pendingToShippedSeconds,
                              shippedToDeliveredSeconds>>
       /\ (EnableCalled /\ ~autoUpdateEnabled)
            => (~LoopRunning /\ pc'["sched"] = "loop")
       /\ (DisableCalled /\ ~autoUpdateEnabled)
            => /\ pc'["sched"] = pc["sched"]
               /\ UNCHANGED <<sched, autoUpdateEnabled, pendingToShippedSeconds,
                              shippedToDeliveredSeconds, orders, file, call>>]_vars

C27_Witness ==
    /\ result = [op |-> "enable", value |-> "already"]
    /\ autoUpdateEnabled
    /\ pendingToShippedSeconds = 2
    /\ pc["sched"] = "scan_check"
    /\ Len(orders) = 1

\* what an order records about the purchase
Purchase(o) ==
    [orderId |-> o.orderId, userId |-> o.userId, items |-> o.items,
     totalAmount |-> o.totalAmount, orderTime |-> o.orderTime]

WithinRanges(p) ==
    IF p.promotionType = "FULL_REDUCTION"
    THEN 0 < p.reductionAmount /\ p.reductionAmount < p.thresholdAmount
    ELSE 0 < p.discountRate /\ p.discountRate < Scale

\* C29: for every basket and every catalog whose full reductions have
\* 0 < reductionAmount < thresholdAmount and whose discounts have
\* 0 < discountRate < 1, calculatePromotionResult returns finalTotal >= 0,
\* totalReduction <= afterDiscountTotal and totalSavings <= originalTotal,
\* also when several full reductions qualify at once.
C29_TotalNeverNegative ==
    (/\ result.op = "pricing"
     /\ \A k \in 1..Len(promotions) : WithinRanges(promotions[k]))
    => /\ result.value.finalTotal >= 0
       /\ result.value.totalReduction <= result.value.afterDiscountTotal
       /\ result.value.totalSavings <= result.value.originalTotal

\* C30: in every reachable state the ids of the orders in the collection are
\* pairwise distinct, so findOrderById(o.id) returns o for every order o of
\* the collection and updateOrderStatus(o.id, s) changes o and no other
\* order, also when one user creates two orders within one clock second.
C30_OrderIdsDistinct ==
    /\ \A j, k \in 1..Len(orders) : j # k => orders[j].orderId # orders[k].orderId
    /\ \A k \in 1..Len(orders) : findOrderById(orders[k].orderId) = k
    /\ (pc["fg"] \in {"update_status", "update_time"} /\ call.op = "update")
          => \E k \in 1..Len(orders) : call.target = k
====
